---- MODULE Spec2Model ----
(***************************************************************************)
(* Verification model of cripty2001/utils.                                 *)
(*                                                                         *)
(*   Dispatcher       src/src/react-ui/input.tsx  (lines 69..235)          *)
(*   useAsyncInput    src/src/react-whispr.ts     (lines 450..522)         *)
(*                                                                         *)
(* The reactive cell (Whispr) is an external package: a cell holds one     *)
(* value, a write notifies every subscriber synchronously before the       *)
(* writer continues, and subscribe() delivers the current value at once.   *)
(* JavaScript runs one task at a time, so every action below is one task   *)
(* (an event handler, a timer callback, a promise reaction) run to its     *)
(* end.                                                                    *)
(***************************************************************************)
EXTENDS Integers, Sequences, FiniteSets, TLC

VARIABLES
    input,       \* Dispatcher harness: the input cell `value: Whispr<I>`
    dispatcher,  \* Dispatcher harness: the Dispatcher object (fields + history)
    value,       \* useAsyncInput: the externally owned AsyncInputValue
    meta,        \* useAsyncInput: the internal {config, ts} React state
    result_d,    \* useAsyncInput: the Dispatcher created by useAsync(.., meta, 0)
    result,      \* useAsyncInput: the React state of useWhisprValue(result_d.filtered)
    forwarded,   \* useAsyncInput history: _meta.ts of every value passed to setValue
    events,      \* useAsyncInput: history of setValue / setPending calls
    edits,       \* useAsyncInput: number of environment events so far (bounded)
    pending,     \* useAsyncInput: the owner's pending flag (last setPending argument)
    client,      \* Appserver client: the Client object, its calls in flight
    server,      \* Appserver: the Appserver object, its requests and log
    metrics,     \* Appserver: the last GET /metrics request and its response
    storage,     \* Appstorage: persistence, the processes' items and indexes
    searcher,    \* Searcher: the Searcher objects and their last search
    clock        \* CURRENT_TS_MS: the wall clock, the cell and its interval timers

vars == <<input, dispatcher, value, meta, result_d, result, forwarded, events, edits,
          pending, client, server, metrics, storage, searcher, clock>>

dispVars == <<input, dispatcher>>
asyncInputVars == <<value, meta, result_d, result, forwarded, events, edits, pending>>

\* What the steps of one component leave alone.
outsideDispatcher == <<asyncInputVars, client, server, metrics, storage, searcher, clock>>
outsideAsyncInput == <<dispVars, client, server, metrics, storage, searcher, clock>>
outsideClient == <<dispVars, asyncInputVars, server, metrics, storage, searcher, clock>>
outsideServer == <<dispVars, asyncInputVars, client, metrics, storage, searcher, clock>>
outsideMetrics == <<dispVars, asyncInputVars, client, server, storage, searcher, clock>>
outsideStorage == <<dispVars, asyncInputVars, client, server, metrics, searcher, clock>>
outsideSearcher == <<dispVars, asyncInputVars, client, server, metrics, storage, clock>>
outsideClock == <<dispVars, asyncInputVars, client, server, metrics, storage, searcher>>

-----------------------------------------------------------------------------
(* Bounds of the model                                                     *)

MaxDispatch == 3      \* dispatches of one Dispatcher (the initial one included)
DebounceTicks == 2    \* a non-zero DEBOUNCE_INTERVAL, in timer ticks
MaxTs == 2            \* largest Date.now() reading / external timestamp
MaxEdits == 2         \* environment events of the useAsyncInput harness
MaxRenderPasses == 6  \* nested re-renders React performs before giving up
MaxCalls == 2         \* calls of unsafeExec made by one Client

-----------------------------------------------------------------------------
(* JavaScript values                                                       *)

\* A primitive or an Error is a record: `kind` is the runtime type, `repr`
\* the characters of a string, the message of an Error or the digits of a
\* number.  An object is a record of its fields.
Null == [kind |-> "null", repr |-> ""]
JsString(s) == [kind |-> "string", repr |-> s]
JsError(m) == [kind |-> "Error", repr |-> m]
JsNumber(n) == [kind |-> "number", repr |-> ToString(n)]
JsBigInt(n) == [kind |-> "bigint", repr |-> ToString(n)]

\* No value (a run that has caught nothing).
NoValue == [kind |-> "none", repr |-> ""]

\* Inputs written to the Dispatcher's input cell.
Values == {Null, JsString("a"), JsString("b")}

RejectValues == {JsError("boom"), JsNumber(7), JsBigInt(7)}

\* e instanceof Error
InstanceOfError(e) == e.kind = "Error"

\* JSON.stringify throws a TypeError on a BigInt (and on a cyclic object).
StringifyThrows(e) == e.kind = "bigint"

\* JSON.stringify(e) where it returns.
JSON_stringify(e) ==
    CASE e.kind = "number" -> e.repr
      [] OTHER -> "{}"

\* lodash isEqual: deep value equality.
isEqual(a, b) == a = b

-----------------------------------------------------------------------------
(* DispatcherStatePayload                                                  *)

Loading(p) == [loading |-> TRUE, progress |-> p]
Ok(data) == [loading |-> FALSE, ok |-> TRUE, data |-> data]
Failed(error) == [loading |-> FALSE, ok |-> FALSE, error |-> error]

\* Dispatcher.filtered
Filtered(payload) ==
    IF payload.loading THEN Null
    ELSE IF ~payload.ok THEN Null
    ELSE payload.data

-----------------------------------------------------------------------------
(* Dispatcher (src/src/react-ui/input.tsx)                                 *)
(*                                                                         *)
(* A Dispatcher is a record.  Program fields: DEBOUNCE_INTERVAL, lastValue,*)
(* controller and payload (the state cell), aborted (the controllers whose *)
(* signal is aborted).  Controller 0 is the constructor's; dispatch number *)
(* c creates controller c and owns runs[c], the position of its async tail:*)
(*   "debounce"   awaiting sleep(DEBOUNCE_INTERVAL), `timer` ticks left    *)
(*   "pending"    f was called and its promise is pending                  *)
(*   "thrown"     f threw synchronously; the catch reaction is queued      *)
(*   "resolved"   the then reaction ran commit                             *)
(*   "rejected"   the catch reaction ran raise (err: the value caught)     *)
(*   "unhandled"  the catch reaction itself threw: the promise returned by *)
(*                dispatch rejected                                        *)
(*   "finished"   the tail of an aborted run has ended, in whichever way   *)
(* History fields: seen (the controllers that a synchronous subscriber of  *)
(* the state cell has received together with the payload loading/0), burst *)
(* (the controllers created since control last returned to the event       *)
(* loop); and per run: invoked (how many times f was called for it),       *)
(* chained (dispatched while the previous run was still in its debounce    *)
(* window), abortedInWindow (aborted before its own debounce window had    *)
(* elapsed), overwritten (aborted within the burst that created it),       *)
(* seenAtCall (the subscribers had received its loading payload when f was *)
(* called), late (a closure of the run was called after its abort),        *)
(* replaced (the data of the run it aborted, if that run had not ended).   *)
(* Once a run is aborted nothing it does can be told apart by the program  *)
(* but whether it has ended, so an aborted run keeps only that: a queued   *)
(* catch reaction counts as a pending promise, the rest of its sleep is    *)
(* not tracked (its timer may fire at any later time), and its data is     *)
(* dropped when it ends.                                                   *)

\* What a call of f does at once: return a pending promise, or throw.
FBehaviours == {"returns", "throws"}

\* constructor, up to the subscription
NewDispatcher(D) ==
    [ DEBOUNCE_INTERVAL |-> D,
      lastValue |-> Null,
      controller |-> 0,
      payload |-> Loading(0),
      aborted |-> {},
      runs |-> << >>,
      seen |-> {},
      burst |-> {} ]

Runs(d) == 1..Len(d.runs)

\* this.setState(..): the cell takes the value and notifies its subscribers.
SetState(d, controller, payload) ==
    [d EXCEPT !.controller = controller,
              !.payload = payload,
              !.seen = IF payload = Loading(0) THEN @ \cup {controller} ELSE @]

\* The tail of run c has ended; only the current run keeps its details.
Ended(run) == run.pc \in {"resolved", "rejected", "unhandled", "finished"}

Retire(run) ==
    [run EXCEPT !.pc = CASE Ended(run) -> "finished"
                         [] run.pc = "thrown" -> "pending"
                         [] OTHER -> run.pc,
                !.err = NoValue,
                !.data = IF Ended(run) THEN NoValue ELSE @,
                !.replaced = NoValue,
                !.timer = 0]

\* controller.abort() on the controller in the state cell.
Abort(d) ==
    LET old == d.controller
    IN  [d EXCEPT !.aborted = @ \cup {old},
                  !.runs = [i \in Runs(d) |->
                              IF i = old
                              THEN [Retire(d.runs[i]) EXCEPT
                                      !.abortedInWindow =
                                          (d.runs[i].pc = "debounce" /\ d.runs[i].timer > 0),
                                      !.overwritten = (old \in d.burst)]
                              ELSE d.runs[i]]]

\* reset(): abort the current controller, then install the fresh controller
\* with the loading payload.
ResetNoAbort(d, controller) ==
    SetState(d, controller, Loading(0))

ResetSilent(d, controller) ==
    [Abort(d) EXCEPT !.controller = controller, !.payload = Loading(0)]

Reset(d, controller) ==
    SetState(Abort(d), controller, Loading(0))

\* The updateState closure of the dispatch that owns controller c.
UpdateStateUnguarded(d, c, payload) ==
    SetState(d, d.controller, payload)

UpdateState(d, c, payload) ==
    IF c \in d.aborted
    THEN d
    ELSE SetState(d, d.controller, payload)

Commit(d, c, data) == UpdateState(d, c, Ok(data))

Raise(d, c, error) == UpdateState(d, c, Failed(error))

Progress(d, c, p) == UpdateState(d, c, Loading(p))

\* The call this.f(data, signals.progress, signals.controller.signal).
CallF(d, c, beh) ==
    [d EXCEPT !.runs[c].invoked = @ + 1,
              !.runs[c].seenAtCall = (c \in d.seen),
              !.runs[c].pc = IF beh = "returns" THEN "pending" ELSE "thrown",
              !.runs[c].timer = 0]

\* dispatch(data) up to its first suspension point: reset, then either the
\* sleep (DEBOUNCE_INTERVAL > 0) or the call of f.
DispatchNoDebounce(d, data, beh) ==
    LET c == Len(d.runs) + 1
        run == [ data |-> data, pc |-> "debounce", timer |-> d.DEBOUNCE_INTERVAL,
                 err |-> NoValue, invoked |-> 0,
                 chained |-> FALSE, replaced |-> NoValue, abortedInWindow |-> FALSE,
                 overwritten |-> FALSE, seenAtCall |-> FALSE, late |-> FALSE ]
        r == Reset(d, c)
    IN  CallF([r EXCEPT !.runs = Append(@, run), !.burst = @ \cup {c}], c, beh)

Dispatch(d, data, beh) ==
    LET c == Len(d.runs) + 1
        prev == d.controller
        run == [ data |-> data, pc |-> "debounce", timer |-> d.DEBOUNCE_INTERVAL,
                 err |-> NoValue, invoked |-> 0,
                 chained |-> (prev # 0 /\ d.runs[prev].pc = "debounce"
                                       /\ d.runs[prev].timer > 0),
                 replaced |-> IF prev # 0 /\ ~Ended(d.runs[prev])
                              THEN d.runs[prev].data ELSE NoValue,
                 abortedInWindow |-> FALSE,
                 overwritten |-> FALSE, seenAtCall |-> FALSE, late |-> FALSE ]
        r == Reset(d, c)
        started == [r EXCEPT !.runs = Append(@, run), !.burst = @ \cup {c}]
    IN  IF d.DEBOUNCE_INTERVAL > 0
        THEN started
        ELSE CallF(started, c, beh)

\* The subscription callback of the constructor.
Subscription(d, v, beh) ==
    IF d.lastValue # Null /\ isEqual(d.lastValue, v)
    THEN d
    ELSE Dispatch([d EXCEPT !.lastValue = v], v, beh)

\* The continuation of the async tail after sleep(DEBOUNCE_INTERVAL).  An
\* aborted run throws the AbortError, which its own catch reaction hands to
\* raise (a DOMException is an Error).
AfterSleepNoCheck(d, c, beh) ==
    CallF(d, c, beh)

AfterSleep(d, c, beh) ==
    IF c \in d.aborted
    THEN [Raise(d, c, JsError("Debounced")) EXCEPT !.runs[c].pc = "finished",
                                                   !.runs[c].data = NoValue,
                                                   !.runs[c].late = TRUE]
    ELSE CallF(d, c, beh)

\* The end of run c's tail, with the position and the value caught to keep.
End(d, c, pc, e) ==
    [d EXCEPT !.runs[c].pc = IF c \in d.aborted THEN "finished" ELSE pc,
              !.runs[c].err = IF c \in d.aborted THEN NoValue ELSE e,
              !.runs[c].data = IF c \in d.aborted THEN NoValue ELSE @,
              !.runs[c].late = (c \in d.aborted)]

\* .then((res) => signals.commit(res))
ThenReaction(d, c, res) ==
    End(Commit(d, c, res), c, "resolved", NoValue)

\* .catch((e) => signals.raise(e instanceof Error ? e : new Error(JSON.stringify(e))))
CatchReaction(d, c, e) ==
    IF InstanceOfError(e)
    THEN End(Raise(d, c, e), c, "rejected", e)
    ELSE IF StringifyThrows(e)
         THEN End(d, c, "unhandled", e)
         ELSE End(Raise(d, c, JsError(JSON_stringify(e))), c, "rejected", e)

\* f calls setProgress(p) while its promise is pending.
ProgressCall(d, c, p) ==
    [Progress(d, c, p) EXCEPT !.runs[c].late = @ \/ (c \in d.aborted)]

\* One tick of the timer clock: every running sleep has one tick less left.
TickTimers(d) ==
    [d EXCEPT !.runs = [i \in Runs(d) |->
                          IF d.runs[i].pc = "debounce" /\ d.runs[i].timer > 0
                          THEN [d.runs[i] EXCEPT !.timer = @ - 1]
                          ELSE d.runs[i]]]

\* Control is back in the event loop: the synchronous burst is over.
EndBurst(d) == [d EXCEPT !.burst = {}]

-----------------------------------------------------------------------------
(* Dispatcher harness: one Dispatcher over an input cell, a handler f that *)
(* the environment resolves, rejects or lets report progress, and the      *)
(* timers of sleep().  DEBOUNCE_INTERVAL is 0 or DebounceTicks ticks.      *)

ProgressValues == {0, 1}

\* The value f resolves with for input v.
F(v) == [result |-> v]

AsyncInputIdle ==
    /\ value = Null
    /\ meta = Null
    /\ result_d = Null
    /\ result = Null
    /\ forwarded = << >>
    /\ events = << >>
    /\ edits = 0
    /\ pending = FALSE

ClientIdle == client = Null

ServerIdle == server = Null

MetricsIdle == metrics = Null

StorageIdle == storage = Null

SearcherIdle == searcher = Null

ClockIdle == clock = Null

\* The components a specification of the Dispatcher, useAsyncInput, the
\* Client or the route handlers does not run.
UtilitiesIdle == MetricsIdle /\ StorageIdle /\ SearcherIdle /\ ClockIdle

InitDispatcher ==
    /\ UtilitiesIdle
    /\ ClientIdle
    /\ ServerIdle
    /\ input \in Values
    /\ \E D \in {0, DebounceTicks} : \E beh \in FBehaviours :
         dispatcher = Subscription(NewDispatcher(D), input, beh)
    /\ AsyncInputIdle

\* A write to the input cell; the subscription callback runs inside it.
Write(v, beh) ==
    /\ Len(dispatcher.runs) < MaxDispatch
    /\ input' = v
    /\ dispatcher' = Subscription(dispatcher, v, beh)
    /\ UNCHANGED outsideDispatcher

\* Time passes (also inside a synchronous burst).
Tick ==
    /\ \E c \in Runs(dispatcher) :
         dispatcher.runs[c].pc = "debounce" /\ dispatcher.runs[c].timer > 0
    /\ dispatcher' = TickTimers(dispatcher)
    /\ UNCHANGED <<input, outsideDispatcher>>

\* The setTimeout of sleep(DEBOUNCE_INTERVAL) fires for run c.
DebounceExpire(c, beh) ==
    /\ dispatcher.runs[c].pc = "debounce"
    /\ dispatcher.runs[c].timer = 0
    /\ dispatcher' = EndBurst(AfterSleep(dispatcher, c, beh))
    /\ UNCHANGED <<input, outsideDispatcher>>

HandlerProgress(c, p) ==
    /\ dispatcher.runs[c].pc = "pending"
    /\ dispatcher' = EndBurst(ProgressCall(dispatcher, c, p))
    /\ UNCHANGED <<input, outsideDispatcher>>

HandlerResolve(c) ==
    /\ dispatcher.runs[c].pc = "pending"
    /\ dispatcher' = EndBurst(ThenReaction(dispatcher, c, F(dispatcher.runs[c].data)))
    /\ UNCHANGED <<input, outsideDispatcher>>

\* The promise of f rejects with e, or the e that f threw is caught.
HandlerReject(c, e) ==
    /\ dispatcher.runs[c].pc \in {"pending", "thrown"}
    /\ dispatcher' = EndBurst(CatchReaction(dispatcher, c, e))
    /\ UNCHANGED <<input, outsideDispatcher>>

NextDispatcher ==
    \/ \E v \in Values : \E beh \in FBehaviours : Write(v, beh)
    \/ Tick
    \/ \E c \in Runs(dispatcher) : \E beh \in FBehaviours : DebounceExpire(c, beh)
    \/ \E c \in Runs(dispatcher) : \E p \in ProgressValues : HandlerProgress(c, p)
    \/ \E c \in Runs(dispatcher) : HandlerResolve(c)
    \/ \E c \in Runs(dispatcher) : \E e \in RejectValues : HandlerReject(c, e)

SpecDispatcher == InitDispatcher /\ [][NextDispatcher]_vars

-----------------------------------------------------------------------------
(* Claims about the Dispatcher, checked under SpecDispatcher               *)

StateCell == <<dispatcher.controller, dispatcher.payload, dispatcher.seen>>

\* A step in which a closure (commit, raise or progress) of run c is called.
ClosureCall(c) ==
    \/ HandlerResolve(c)
    \/ \E e \in RejectValues : HandlerReject(c, e)
    \/ \E p \in ProgressValues : HandlerProgress(c, p)
    \/ \E beh \in FBehaviours : DebounceExpire(c, beh)

LastRun == dispatcher.runs[Len(dispatcher.runs)]

\* C1: once the controller of a dispatch is aborted, no call of that
\* dispatch's commit, raise or progress closure changes the state cell (nor
\* notifies its subscribers), in every interleaving of writes, timer
\* expiries and handler completions.
C1_AbortedClosuresAreInert ==
    [][\A c \in Runs(dispatcher) :
         (c \in dispatcher.aborted /\ ClosureCall(c)) => StateCell' = StateCell]_vars

\* C1 witness: a run that had called f was aborted and one of its closures
\* was called afterwards.
C1_Witness ==
    \E c \in Runs(dispatcher) :
        /\ c \in dispatcher.aborted
        /\ dispatcher.runs[c].invoked > 0
        /\ dispatcher.runs[c].late

\* C2: with a debounce D > 0, a dispatch that is superseded (its controller
\* aborted by the dispatch of a different value) before its D ticks have
\* elapsed never calls the handler.
C2_SupersededInWindowNeverInvoked ==
    \A c \in Runs(dispatcher) :
        (dispatcher.DEBOUNCE_INTERVAL > 0 /\ dispatcher.runs[c].abortedInWindow)
            => dispatcher.runs[c].invoked = 0

\* C2 witness: such a dispatch whose sleep has since ended.
C2_Witness ==
    \E c \in Runs(dispatcher) :
        /\ dispatcher.DEBOUNCE_INTERVAL > 0
        /\ dispatcher.runs[c].abortedInWindow
        /\ dispatcher.runs[c].pc = "finished"

\* Every dispatch after the first was made inside the debounce window of the
\* one before it.
Chain ==
    /\ dispatcher.DEBOUNCE_INTERVAL > 0
    /\ \A c \in Runs(dispatcher) : c > 1 => dispatcher.runs[c].chained

\* C3: with D > 0 and writes v1..vn each made within the debounce window of
\* the previous one, only the last dispatch is effective: no earlier run
\* calls the handler, the last calls it at most once (exactly once by the
\* time it has resolved) and with vn, every write published loading/0, and
\* when the handler has resolved the payload is ok with its result for vn.
C3_BurstWithinWindow ==
    Chain =>
        /\ \A c \in Runs(dispatcher) :
              /\ c \in dispatcher.seen
              /\ c < Len(dispatcher.runs) => dispatcher.runs[c].invoked = 0
        /\ LastRun.invoked <= 1
        /\ LastRun.data = input
        /\ LastRun.pc = "resolved" =>
              /\ LastRun.invoked = 1
              /\ dispatcher.payload = Ok(F(input))

\* C3 witness: three writes within one window, the third of another value
\* than the second, and the handler resolved for the third.
C3_Witness ==
    /\ Chain
    /\ Len(dispatcher.runs) = 3
    /\ LastRun.replaced # NoValue
    /\ LastRun.replaced # LastRun.data
    /\ LastRun.pc = "resolved"

AllEnded == \A c \in Runs(dispatcher) : Ended(dispatcher.runs[c])

\* C4: after any sequence of writes v1..vn, once every started handler
\* promise has settled the payload is the ok or error outcome of the run on
\* vn (the last value written), never a loading payload and never the result
\* for an earlier, different value.
C4_FinalPayloadIsLastOutcome ==
    AllEnded =>
        /\ dispatcher.controller = Len(dispatcher.runs)
        /\ ~dispatcher.payload.loading
        /\ dispatcher.payload.ok => dispatcher.payload = Ok(F(input))

\* What is left of C4 when the last run does not end with its catch reaction
\* throwing (see C7).
LastWriteWins ==
    (AllEnded /\ LastRun.pc # "unhandled") =>
        /\ dispatcher.controller = Len(dispatcher.runs)
        /\ ~dispatcher.payload.loading
        /\ dispatcher.payload.ok => dispatcher.payload = Ok(F(input))
        /\ dispatcher.payload.ok <=> LastRun.pc = "resolved"

\* C5 as stated: for every D >= 0, a value overwritten by a later write of
\* the same synchronous burst never causes a call of the handler.
C5_OverwrittenNeverInvoked ==
    \A c \in Runs(dispatcher) :
        dispatcher.runs[c].overwritten => dispatcher.runs[c].invoked = 0

\* C5 amended: with D > 0 a value overwritten within the same synchronous
\* burst never causes a call of the handler; with D = 0 the handler is called
\* inside every dispatch, overwritten or not; no dispatch calls it twice.
C5_Amended ==
    \A c \in Runs(dispatcher) :
        /\ dispatcher.runs[c].invoked <= 1
        /\ dispatcher.DEBOUNCE_INTERVAL > 0 =>
              (dispatcher.runs[c].overwritten => dispatcher.runs[c].invoked = 0)
        /\ dispatcher.DEBOUNCE_INTERVAL = 0 => dispatcher.runs[c].invoked = 1

\* C5 witness: with D > 0, a run overwritten in its own burst whose sleep has
\* ended; with D = 0, a run overwritten in its own burst.
C5_Witness ==
    \E c \in Runs(dispatcher) :
        /\ dispatcher.runs[c].overwritten
        /\ dispatcher.DEBOUNCE_INTERVAL > 0
        /\ dispatcher.runs[c].pc = "finished"

\* C6: every dispatch publishes loading/0 with its fresh controller inside
\* the write: the subscribers of the state cell have received it before the
\* handler is called and before the dispatch suspends, and for as long as the
\* dispatch waits for its debounce the cell holds loading/0.
C6_LoadingSeenBeforeSuspension ==
    \A c \in Runs(dispatcher) :
        /\ c \in dispatcher.seen
        /\ dispatcher.runs[c].invoked > 0 => dispatcher.runs[c].seenAtCall
        /\ (c = dispatcher.controller /\ dispatcher.runs[c].pc = "debounce")
              => dispatcher.payload = Loading(0)

\* C6 witness: a dispatch caused by a write waits for its debounce, after an
\* earlier run had published something else.
C6_Witness ==
    \E c \in Runs(dispatcher) :
        /\ c > 1
        /\ c = dispatcher.controller
        /\ dispatcher.DEBOUNCE_INTERVAL > 0
        /\ dispatcher.runs[c].pc = "debounce"
        /\ dispatcher.runs[c - 1].invoked > 0

\* The error record the state should hold after the handler failed with e.
Normalized(e) == IF InstanceOfError(e) THEN e ELSE JsError(JSON_stringify(e))

\* C7: when the handler throws or rejects with e in a dispatch that is not
\* aborted, the payload becomes the error payload with e normalized, and the
\* promise returned by dispatch never rejects.
C7_FailuresBecomeState ==
    \A c \in Runs(dispatcher) :
        /\ dispatcher.runs[c].pc # "unhandled"
        /\ dispatcher.runs[c].pc = "rejected" =>
              dispatcher.payload = Failed(Normalized(dispatcher.runs[c].err))

\* What is left of C7 for the values JSON.stringify accepts.
SerializableFailuresBecomeState ==
    \A c \in Runs(dispatcher) :
        /\ dispatcher.runs[c].pc = "unhandled" => StringifyThrows(dispatcher.runs[c].err)
        /\ dispatcher.runs[c].pc = "rejected" =>
              dispatcher.payload = Failed(Normalized(dispatcher.runs[c].err))

(***************************************************************************)
(* useAsyncInput (src/src/react-whispr.ts).                                *)
(*                                                                         *)
(* The hook is rendered by an owner component that holds `value` and       *)
(* stores whatever the hook hands to `setValue`.  A render runs the        *)
(* effects whose dependencies changed, in declaration order; the state     *)
(* updates they request are applied together and cause the next render.    *)
(* An environment event together with the renders it causes is one step.   *)
(*                                                                         *)
(* An AsyncInputValue is [r, _meta |-> [ts, config], run]: `r` stands for  *)
(* the fields of R, `run` is history (the dispatch that produced the       *)
(* result, 0 for a value made by the owner).  `events` records the calls   *)
(* of the owner's callbacks made in the last step: op, the _meta of what   *)
(* the call was about, the external timestamp the hook saw (extTs) and the *)
(* producing run.                                                          *)
(***************************************************************************)

Configs == {"a", "b"}

\* handler(config): the R the user's handler resolves with.
H(config) == "handler(" \o config \o ")"

Meta(config, ts) == [config |-> config, ts |-> ts]

AsyncInputValue(r, m, run) == [r |-> r, _meta |-> m, run |-> run]

\* The function useAsyncInput hands to useAsync, once `await handler(config)`
\* has resolved, in dispatch c.
Wrapper(m, c) == AsyncInputValue(H(m.config), Meta(m.config, m.ts), c)

Event(op, m, extTs, run) ==
    [op |-> op, ts |-> m.ts, config |-> m.config, extTs |-> extTs, run |-> run]

\* A rendered hook: the values the render closed over, the state updates
\* requested so far (none: << >>) and which dependencies changed.
Hook(v, m, d, res, fw, ev, changedValue, changedMeta, changedResult) ==
    [ value |-> v, meta |-> m, result_d |-> d, result |-> res,
      forwarded |-> fw, events |-> ev,
      setMeta |-> << >>, setValue |-> << >>,
      changedValue |-> changedValue, changedMeta |-> changedMeta,
      changedResult |-> changedResult ]

\* useEffect(() => setPending(true), [meta, setPending])
PendingEffect(h) ==
    [h EXCEPT !.events = Append(@, Event("setPending(true)", h.meta, h.value._meta.ts, 0))]

\* A sync effect that also takes an external value of the same ts.
SyncEffectNonStrict(h) ==
    IF h.value._meta.ts >= h.meta.ts /\ h.value._meta # h.meta
    THEN [h EXCEPT !.setMeta = <<h.value._meta>>]
    ELSE h

\* useEffect(() => { if (value._meta.ts > meta.ts) setMeta(value._meta) }, ..)
SyncEffect(h) ==
    IF h.value._meta.ts > h.meta.ts
    THEN [h EXCEPT !.setMeta = <<h.value._meta>>]
    ELSE h

\* useAsync's effect: setInput(data) writes the Dispatcher's input cell, whose
\* subscription dispatches.  The wrapper is an async function: it returns a
\* promise whatever the handler does.
InputEffect(h) ==
    [h EXCEPT !.result_d = Subscription(h.result_d, h.meta, "returns")]

ResultEffectNonStrict(h) ==
    IF h.result = Null THEN h
    ELSE IF h.result._meta.ts < h.value._meta.ts
         THEN [h EXCEPT !.events = Append(@, Event("setPending(false)", h.result._meta,
                                                   h.value._meta.ts, h.result.run))]
         ELSE [h EXCEPT !.setValue = <<h.result>>,
                        !.forwarded = Append(@, h.result._meta.ts),
                        !.events = @ \o << Event("setValue", h.result._meta,
                                                 h.value._meta.ts, h.result.run),
                                           Event("setPending(false)", h.result._meta,
                                                 h.value._meta.ts, h.result.run) >>]

ResultEffectNoGuard(h) ==
    IF h.result = Null THEN h
    ELSE [h EXCEPT !.setValue = <<h.result>>,
                   !.forwarded = Append(@, h.result._meta.ts),
                   !.events = @ \o << Event("setValue", h.result._meta,
                                            h.value._meta.ts, h.result.run),
                                      Event("setPending(false)", h.result._meta,
                                            h.value._meta.ts, h.result.run) >>]

\* The effect on [result, value, setValue, setPending].
ResultEffect(h) ==
    IF h.result = Null THEN h
    ELSE IF h.result._meta.ts <= h.value._meta.ts
         THEN [h EXCEPT !.events = Append(@, Event("setPending(false)", h.result._meta,
                                                   h.value._meta.ts, h.result.run))]
         ELSE [h EXCEPT !.setValue = <<h.result>>,
                        !.forwarded = Append(@, h.result._meta.ts),
                        !.events = @ \o << Event("setValue", h.result._meta,
                                                 h.value._meta.ts, h.result.run),
                                           Event("setPending(false)", h.result._meta,
                                                 h.value._meta.ts, h.result.run) >>]

\* useWhisprValue(result_d.filtered): the subscription keeps the React state
\* equal to the cell, setting it when the cell's value is not deep-equal.
UseWhisprValue(d) == Filtered(d.payload)

\* One render: the effects whose dependencies changed, then the requested
\* state updates (the owner stores what setValue received).
Render(h) ==
    LET e1 == IF h.changedMeta THEN PendingEffect(h) ELSE h
        e2 == IF h.changedValue \/ h.changedMeta THEN SyncEffect(e1) ELSE e1
        e3 == IF h.changedMeta THEN InputEffect(e2) ELSE e2
        e5 == IF h.changedResult \/ h.changedValue THEN ResultEffect(e3) ELSE e3
        res == UseWhisprValue(e5.result_d)
    IN  Hook(IF e5.setValue = << >> THEN h.value ELSE e5.setValue[1],
             IF e5.setMeta = << >> THEN h.meta ELSE e5.setMeta[1],
             e5.result_d, res, e5.forwarded, e5.events,
             e5.setValue # << >>, e5.setMeta # << >>, ~isEqual(res, h.result))

RECURSIVE Rerender(_, _)
\* Renders until no state update is left (React gives up after a number of
\* nested updates).
Rerender(h, passes) ==
    IF passes = 0 \/ ~(h.changedValue \/ h.changedMeta \/ h.changedResult)
    THEN h
    ELSE Rerender(Render(h), passes - 1)

\* The first render (useState and useSafeRef initialisers: the Dispatcher's
\* constructor subscribes to the input cell and dispatches) and the effects
\* of the mount.
Mount(v) ==
    LET m == Meta(v._meta.config, v._meta.ts)
        d == Subscription(NewDispatcher(0), m, "returns")
    IN  Rerender(Hook(v, m, d, UseWhisprValue(d), << >>, << >>, TRUE, TRUE, TRUE),
                 MaxRenderPasses)

\* returnedSetValue(updater), the updater choosing config, Date.now() reading
\* now.
ReturnedSetValue(h, config, now) ==
    [h EXCEPT !.meta = Meta(config, now), !.changedMeta = TRUE]

DispatcherIdle == input = Null /\ dispatcher = NewDispatcher(0)

\* The owner's pending flag after the calls ev: the argument of the last
\* setPending among them, p when there is none.
OwnerPending(p, ev) ==
    LET calls == {i \in 1..Len(ev) : ev[i].op \in {"setPending(true)", "setPending(false)"}}
    IN  IF calls = {}
        THEN p
        ELSE \E i \in calls : ev[i].op = "setPending(true)" /\ \A j \in calls : j <= i

Rendered(h) ==
    /\ value' = h.value
    /\ meta' = h.meta
    /\ result_d' = h.result_d
    /\ result' = h.result
    /\ forwarded' = h.forwarded
    /\ events' = h.events
    /\ pending' = OwnerPending(pending, h.events)

Current == Hook(value, meta, result_d, result, forwarded, << >>, FALSE, FALSE, FALSE)

InitAsyncInput ==
    /\ UtilitiesIdle
    /\ DispatcherIdle
    /\ ClientIdle
    /\ ServerIdle
    /\ edits = 0
    /\ \E c \in Configs : \E t \in {0, 1} :
         LET h == Mount(AsyncInputValue("initial", Meta(c, t), 0))
         IN  /\ value = h.value
             /\ meta = h.meta
             /\ result_d = h.result_d
             /\ result = h.result
             /\ forwarded = h.forwarded
             /\ events = h.events
             /\ pending = OwnerPending(FALSE, h.events)

\* The user edits the input.  Date.now() is a wall clock: any reading.
UserEdit(config, now) ==
    /\ edits < MaxEdits
    /\ edits' = edits + 1
    /\ Rendered(Rerender(ReturnedSetValue(Current, config, now), MaxRenderPasses))
    /\ UNCHANGED outsideAsyncInput

\* The owner replaces the value (a load, a change made elsewhere).  A payload
\* supersedes another when its ts is higher: the owner never lowers the ts.
ExternalChange(config, ts) ==
    /\ edits < MaxEdits
    /\ ts >= value._meta.ts
    /\ edits' = edits + 1
    /\ Rendered(Rerender([Current EXCEPT
                             !.value = AsyncInputValue("external", Meta(config, ts), 0),
                             !.changedValue = TRUE],
                         MaxRenderPasses))
    /\ UNCHANGED outsideAsyncInput

\* The handler's promise of dispatch c resolves.
AsyncResolve(c) ==
    /\ result_d.runs[c].pc = "pending"
    /\ LET d == ThenReaction(result_d, c, Wrapper(result_d.runs[c].data, c))
       IN  Rendered(Rerender([Current EXCEPT
                                 !.result_d = d,
                                 !.result = UseWhisprValue(d),
                                 !.changedResult = ~isEqual(UseWhisprValue(d), result)],
                             MaxRenderPasses))
    /\ UNCHANGED <<edits, outsideAsyncInput>>

\* What the handler is taken to reject with.
AsyncRejectValues == {JsError("boom"), JsBigInt(7)}

\* The handler's promise of dispatch c rejects with e.
AsyncReject(c, e) ==
    /\ result_d.runs[c].pc = "pending"
    /\ LET d == CatchReaction(result_d, c, e)
       IN  Rendered(Rerender([Current EXCEPT
                                 !.result_d = d,
                                 !.result = UseWhisprValue(d),
                                 !.changedResult = ~isEqual(UseWhisprValue(d), result)],
                             MaxRenderPasses))
    /\ UNCHANGED <<edits, outsideAsyncInput>>

NextAsyncInput ==
    \/ \E config \in Configs : \E now \in 0..MaxTs : UserEdit(config, now)
    \/ \E config \in Configs : \E ts \in 0..MaxTs : ExternalChange(config, ts)
    \/ \E c \in Runs(result_d) : AsyncResolve(c)
    \/ \E c \in Runs(result_d) : \E e \in AsyncRejectValues : AsyncReject(c, e)

SpecAsyncInput == InitAsyncInput /\ [][NextAsyncInput]_vars

(***************************************************************************)
(* Claims about useAsyncInput, checked under SpecAsyncInput.               *)
(***************************************************************************)

\* The hook state stays within its types, and useWhisprValue tracks the cell.
AsyncInputTypeOK ==
    /\ value._meta.ts \in 0..MaxTs
    /\ meta.ts \in 0..MaxTs
    /\ result = UseWhisprValue(result_d)
    /\ result_d.DEBOUNCE_INTERVAL = 0

\* Positions in `events` of the calls of the external setter in the last step.
SetValueCalls == {i \in 1..Len(events) : events[i].op = "setValue"}

C9_StaleResultNeverForwarded ==
    /\ \A i \in SetValueCalls : events[i].ts > events[i].extTs
    /\ \A i \in 1..Len(events) :
          (events[i].op = "setPending(false)" /\ events[i].ts <= events[i].extTs /\ i > 1)
              => events[i - 1].op # "setValue"

\* C9 witness: a result older than the external value arrived and the pending
\* flag was cleared for it.
C9_Witness ==
    \E i \in 1..Len(events) :
        /\ events[i].op = "setPending(false)"
        /\ events[i].ts < events[i].extTs

\* Dispatch a was in flight when the next dispatch aborted it.
Superseded(a) ==
    /\ a \in result_d.aborted
    /\ result_d.runs[a].invoked > 0
    /\ result_d.runs[a].pc = "pending" \/ result_d.runs[a].late

\* C10: when edit b follows edit a (ts_a < ts_b) while a's dispatch is still
\* pending, a's result is never passed to the setter, whichever of the two
\* handlers completes first.
C10_SupersededResultNeverForwarded ==
    \A a \in Runs(result_d) :
        Superseded(a) => \A i \in SetValueCalls : events[i].run # a

\* C10 witness: a's handler completed after b's edit superseded it, and the
\* setter received the result for b.
C10_Witness ==
    \E a \in Runs(result_d) :
        /\ Superseded(a)
        /\ result_d.runs[a].late
        /\ a < Len(result_d.runs)
        /\ result_d.runs[a + 1].replaced # NoValue
        /\ result_d.runs[a + 1].replaced.ts < result_d.runs[a + 1].data.ts
        /\ \E i \in SetValueCalls : events[i].run = a + 1

\* C11: every call of the returned setter stamps meta with a ts strictly above
\* the ts the hook held before it, whatever the clock reads.
C11_EditTsStrictlyIncreasing ==
    [][\A config \in Configs : \A now \in 0..MaxTs :
          UserEdit(config, now) =>
              ReturnedSetValue(Current, config, now).meta.ts > meta.ts]_vars

\* Positions in `events` of the calls of setPending made in the last step.
PendingCalls == {i \in 1..Len(events) : events[i].op \in {"setPending(true)", "setPending(false)"}}

\* The last step left the owner's pending flag cleared.
PendingCleared ==
    /\ PendingCalls # {}
    /\ \E i \in PendingCalls :
          /\ events[i].op = "setPending(false)"
          /\ \A j \in PendingCalls : j <= i

\* C12: setPending(true) is called whenever meta changes; setPending(false)
\* is called only for a resolved result, after setValue when that result is
\* forwarded; and once the flag is cleared a value the hook gave to the owner
\* is the latest resolved result.
C12_PendingProtocol ==
    [][/\ meta' # meta => \E i \in 1..Len(events') : events'[i].op = "setPending(true)"
       /\ \A i \in 1..Len(events') :
             events'[i].op = "setPending(false)" =>
                /\ events'[i].run # 0
                /\ events'[i].ts > events'[i].extTs =>
                      (i > 1 /\ events'[i - 1].op = "setValue"
                             /\ events'[i - 1].run = events'[i].run)
       /\ (PendingCleared' /\ value'.run # 0) =>
             (result' # Null /\ value'.r = result'.r /\ value'._meta = result'._meta)]_vars

(***************************************************************************)
(* Appserver client (src/src/Appserver/client.ts).                         *)
(*                                                                         *)
(* `client` is the Client object: authToken (the cell), user (the          *)
(* Dispatcher on authToken, debounce 0), and as history calls (the calls   *)
(* of unsafeExec: path, testedToken, the run of `user` that made it, pc    *)
(* "fetching" or "done") and last (the response handled in the last step,  *)
(* with the token found and how the call ended).  A response is a status   *)
(* and a body; the body may fail to decode.  What follows a response up    *)
(* to the settling of the user Dispatcher is microtasks of one task.       *)
(***************************************************************************)

Tokens == {JsString("T1"), JsString("T2")}

Undefined == [kind |-> "undefined", repr |-> ""]

\* decoded.f
Field(decoded, f) == IF f \in DOMAIN decoded THEN decoded[f] ELSE Undefined

ClientError(message) == [kind |-> "Error", repr |-> message, class |-> "ClientError"]

ClientServerError(code, message, payload) ==
    [kind |-> "Error", repr |-> message.repr, class |-> "ClientServerError",
     code |-> code, payload |-> payload]

ClientValidationError(errors) ==
    [kind |-> "Error", repr |-> "Validation Error", class |-> "ClientValidationError",
     errors |-> errors]

\* What decode throws on a body that is not one msgpack value.
DecodeError == [kind |-> "Error", repr |-> "decode", class |-> "RangeError"]

Statuses == {200, 400, 401, 403, 404, 418, 422, 500}

Undecodable == [kind |-> "undecodable", repr |-> ""]

\* Response bodies: the decoded object, or Undecodable.
ResponseBodies ==
    { [user |-> Null],
      [user |-> JsString("alice")],
      [errors |-> [kind |-> "array", repr |-> "[/q]"],
       received |-> [kind |-> "object", repr |-> "{q: 1}"]],
      [error |-> JsString("Internal server error"),
       code |-> JsString("INTERNAL_SERVERERROR"),
       payload |-> [kind |-> "object", repr |-> "{}"]],
      Undecodable }

Returned(v) == [thrown |-> FALSE, value |-> v]
Thrown(e) == [thrown |-> TRUE, value |-> e]

NoResponse == [call |-> 0]

\* unsafeExec up to the await of fetch: the token snapshot and the request.
StartCall(cl, path, run) ==
    [cl EXCEPT !.calls = Append(@, [path |-> path, testedToken |-> cl.authToken,
                                    run |-> run, pc |-> "fetching"])]

\* this.setAuthToken(t).  Publishing the token runs the user Dispatcher's
\* subscription, whose function resolves null for a null token and calls
\* unsafeExec('auth/whoami', {}) otherwise.
SetAuthToken(cl, t) ==
    IF t = cl.authToken
    THEN cl
    ELSE LET u == Subscription(cl.user, t, "returns")
             set == [cl EXCEPT !.authToken = t]
         IN  IF t = Null
             THEN [set EXCEPT !.user = ThenReaction(u, u.controller, Null)]
             ELSE StartCall([set EXCEPT !.user = u], "auth/whoami", u.controller)

\* private constructor
NewClient ==
    LET u == Subscription(NewDispatcher(0), Null, "returns")
    IN  [ authToken |-> Null,
          user |-> ThenReaction(u, u.controller, Null),
          calls |-> << >>,
          logins |-> << >>,
          last |-> NoResponse ]

\* The outcome of a call and the Client it leaves.
Outcome(cl, o) == [client |-> cl, outcome |-> o]

StatusSwitchClobbering(cl, call, status, decoded) ==
    CASE status \in {401, 403} ->
            Outcome(SetAuthToken(cl, Null), Thrown(ClientError("Permission denied")))
      [] status = 200 -> Outcome(cl, Returned(decoded))
      [] status = 422 ->
            Outcome(cl, Thrown(ClientValidationError(Field(decoded, "errors"))))
      [] status \in {400, 500} ->
            Outcome(cl, Thrown(ClientServerError(Field(decoded, "code"),
                                                 Field(decoded, "error"),
                                                 Field(decoded, "payload"))))
      [] OTHER ->
            Outcome(cl, Thrown(ClientError("Unexpected server response: "
                                           \o ToString(status))))

StatusSwitchLenient(cl, call, status, decoded) ==
    CASE status \in {401, 403} ->
            Outcome(IF call.testedToken = cl.authToken THEN SetAuthToken(cl, Null) ELSE cl,
                    Thrown(ClientError("Permission denied")))
      [] OTHER -> Outcome(cl, Returned(decoded))

\* switch (res.status)
StatusSwitch(cl, call, status, decoded) ==
    CASE status \in {401, 403} ->
            Outcome(IF call.testedToken = cl.authToken THEN SetAuthToken(cl, Null) ELSE cl,
                    Thrown(ClientError("Permission denied")))
      [] status = 200 -> Outcome(cl, Returned(decoded))
      [] status = 422 ->
            Outcome(cl, Thrown(ClientValidationError(Field(decoded, "errors"))))
      [] status \in {400, 500} ->
            Outcome(cl, Thrown(ClientServerError(Field(decoded, "code"),
                                                 Field(decoded, "error"),
                                                 Field(decoded, "payload"))))
      [] OTHER ->
            Outcome(cl, Thrown(ClientError("Unexpected server response: "
                                           \o ToString(status))))

\* unsafeExec from the response on: decode, then the status switch.
Resume(cl, call, status, body) ==
    IF body = Undecodable
    THEN Outcome(cl, Thrown(DecodeError))
    ELSE StatusSwitch(cl, call, status, body)

\* The continuation of the user Dispatcher's function after its whoami call:
\* `return user` and the then reaction, or the catch reaction.
UserSettle(d, run, o) ==
    IF o.thrown
    THEN CatchReaction(d, run, o.value)
    ELSE ThenReaction(d, run, Field(o.value, "user"))

\* A call of login: the token, the run of the user Dispatcher that was
\* current once the token was set, whether the promise has resolved and with
\* what; answer is the status of the response to that run's whoami call (0:
\* none so far).
LoginCall(t, run) == [token |-> t, run |-> run, settled |-> FALSE, ok |-> FALSE, answer |-> 0]

\* user.data.wait(data => data.loading ? undefined : data.ok): every pending
\* login resolves with data.ok at the first payload that is not loading.
WaitUserData(cl) ==
    [cl EXCEPT !.logins =
        [n \in 1..Len(cl.logins) |->
            IF ~cl.logins[n].settled /\ ~cl.user.payload.loading
            THEN [cl.logins[n] EXCEPT !.settled = TRUE, !.ok = cl.user.payload.ok]
            ELSE cl.logins[n]]]

\* login(token)
LoginStart(cl, t) ==
    LET set == SetAuthToken(cl, t)
    IN  WaitUserData([set EXCEPT !.logins = Append(@, LoginCall(t, set.user.controller))])

\* The response to call i arrives: unsafeExec resumes and its caller with it.
\* Within the task the state cell of the user Dispatcher goes through at most
\* one payload that is not loading, the one it ends with.
HandleResponse(cl, i, status, body) ==
    LET call == cl.calls[i]
        r == Resume(cl, call, status, body)
        done == [r.client EXCEPT
                    !.calls[i].pc = "done",
                    !.logins = [n \in 1..Len(cl.logins) |->
                                   IF call.run # 0 /\ cl.logins[n].run = call.run
                                   THEN [cl.logins[n] EXCEPT !.answer = status]
                                   ELSE cl.logins[n]],
                    !.last = [call |-> i, path |-> call.path, status |-> status,
                              body |-> body, testedToken |-> call.testedToken,
                              tokenBefore |-> cl.authToken, outcome |-> r.outcome]]
    IN  IF call.run = 0
        THEN done
        ELSE WaitUserData([done EXCEPT !.user = UserSettle(@, call.run, r.outcome)])

ExecActions == {"do"}

InitClient ==
    /\ UtilitiesIdle
    /\ DispatcherIdle
    /\ AsyncInputIdle
    /\ ServerIdle
    /\ client = NewClient

\* login(t), up to the wait on user.data.
Login(t) ==
    /\ Len(client.calls) < MaxCalls
    /\ Len(client.logins) < MaxCalls
    /\ client' = [LoginStart(client, t) EXCEPT !.last = NoResponse]
    /\ UNCHANGED outsideClient

\* exec(action, input)
Exec(action) ==
    /\ Len(client.calls) < MaxCalls
    /\ client' = [StartCall(client, "/exec/" \o action, 0) EXCEPT !.last = NoResponse]
    /\ UNCHANGED outsideClient

Respond(i, status, body) ==
    /\ client.calls[i].pc = "fetching"
    /\ client' = HandleResponse(client, i, status, body)
    /\ UNCHANGED outsideClient

NextClient ==
    \/ \E t \in Tokens : Login(t)
    \/ \E action \in ExecActions : Exec(action)
    \/ \E i \in 1..Len(client.calls) : \E status \in Statuses :
          \E body \in ResponseBodies : Respond(i, status, body)

SpecClient == InitClient /\ [][NextClient]_vars

(***************************************************************************)
(* Claims about the client, checked under SpecClient.                      *)
(***************************************************************************)

ClientTypeOK ==
    /\ client.authToken \in Tokens \cup {Null}
    /\ client.user.lastValue = client.authToken
    /\ Len(client.calls) <= MaxCalls

\* The response handled in the last step reached the status switch.
Switched == client.last.call # 0 /\ client.last.body # Undecodable

\* The error thrown for a status the switch does not list.
Unexpected(status) == ClientError("Unexpected server response: " \o ToString(status))

\* C13: when a call sent with token T1 gets 401 or 403, the token becomes
\* null if it still was T1 and is left as it was otherwise, and the call
\* throws the permission-denied error either way.
C13_InvalidateOnlyTestedToken ==
    (Switched /\ client.last.status \in {401, 403}) =>
        /\ client.last.outcome = Thrown(ClientError("Permission denied"))
        /\ client.authToken = IF client.last.tokenBefore = client.last.testedToken
                              THEN Null
                              ELSE client.last.tokenBefore

\* C13 witness: the application had set T2 while a call sent with T1 was in
\* flight, and that call got 401.
C13_Witness ==
    /\ Switched
    /\ client.last.status = 401
    /\ client.last.testedToken \in Tokens
    /\ client.last.tokenBefore \in Tokens \ {client.last.testedToken}
    /\ client.authToken = client.last.tokenBefore

\* C14: a 404 response makes the call throw a dedicated NotFound error, which
\* can be told apart from the error for unlisted statuses.
C14_NotFoundIsDedicated ==
    (Switched /\ client.last.status = 404) =>
        /\ client.last.outcome.thrown
        /\ client.last.outcome.value.class # Unexpected(404).class

\* C15: 200 returns the decoded body, 422 throws ValidationError with
\* decoded.errors, 400 and 500 throw ServerError from the decoded fields, any
\* status other than these and 401, 403, 404 throws Unexpected(status); the
\* token is the same after as before.
C15_StatusDispatch ==
    (Switched /\ client.last.status \notin {401, 403, 404}) =>
        LET status == client.last.status
            decoded == client.last.body
        IN  /\ client.authToken = client.last.tokenBefore
            /\ status = 200 => client.last.outcome = Returned(decoded)
            /\ status = 422 =>
                  client.last.outcome = Thrown(ClientValidationError(Field(decoded, "errors")))
            /\ status \in {400, 500} =>
                  client.last.outcome =
                      Thrown(ClientServerError(Field(decoded, "code"), Field(decoded, "error"),
                                               Field(decoded, "payload")))
            /\ status \notin {200, 422, 400, 500} =>
                  client.last.outcome = Thrown(Unexpected(status))

\* C15 witness: a call made with a token got a status outside the list.
C15_Witness ==
    /\ Switched
    /\ client.last.status = 418
    /\ client.last.tokenBefore \in Tokens
    /\ client.last.outcome.thrown

(***************************************************************************)
(* Appserver (src/src/react-whispr.ts, from line 523).                     *)
(*                                                                         *)
(* `server` is the Appserver object: registered (the set of action names), *)
(* routes (the express routes added by register, in order: action,         *)
(* inputSchema, auth, handler), and last (what the last step did: the      *)
(* status and data sent, the handler calls, the console log; or whether    *)
(* register threw).  A request touches no state of the server between its  *)
(* awaits, so the whole route handler is one step; parseUser and the       *)
(* registered handler are the caller's functions and may return or throw.  *)
(***************************************************************************)

\* status = 500, the default of the AppserverError constructor
DefaultStatus == 500

\* new AppserverError(code, message, payload, status)
AppserverError(code, message, payload, status) ==
    [kind |-> "Error", repr |-> message, class |-> "AppserverError",
     code |-> code, payload |-> payload, status |-> status]

EmptyObject == [kind |-> "object", repr |-> "{}"]

\* new AppserverAuthError()
AppserverAuthError ==
    AppserverError("PERMISSION_DENIED", "You have no right to access this page", EmptyObject, 403)

\* new AppserverHandledError(code, message, payload)
AppserverHandledError(code, message, payload) ==
    AppserverError(code, message, payload, DefaultStatus)

InstanceOfAppserverError(e) == "class" \in DOMAIN e /\ e.class = "AppserverError"

\* Requests: the content-type header, the body (a decoded value or
\* Undecodable) and the authorization header (scheme and what follows it).
ContentTypes == {"application/vnd.msgpack", "application/json"}
RequestBodies == {[q |-> JsString("x")], [q |-> JsNumber(1)], Undecodable}
NoHeader == [scheme |-> "", rest |-> ""]
AuthorizationHeaders ==
    {NoHeader, [scheme |-> "Bearer", rest |-> "t1"], [scheme |-> "Bearer", rest |-> ""],
     [scheme |-> "Basic", rest |-> "t1"]}

\* An input schema: the runtime type required of each property.
Schemas == {[q |-> "string"]}

\* Value.Check(inputSchema, data)
Check(schema, data) ==
    \A f \in DOMAIN schema : f \in DOMAIN data /\ data[f].kind = schema[f]

\* [...Value.Errors(inputSchema, data)]: one error for each failing property.
Errors(schema, data) ==
    {[path |-> f, value |-> Field(data, f)] :
        f \in {g \in DOMAIN schema : ~(g \in DOMAIN data /\ data[g].kind = schema[g])}}

\* What parseUser and a handler do when called.
ParseUserBehaviours == {"user", "null", "throwsError"}
HandlerBehaviours == {"returns", "throwsHandledError", "throwsAuthError", "throwsError", "throwsString"}

User == [name |-> JsString("alice")]

\* The value a behaviour throws.
ThrownBy(beh) ==
    CASE beh = "throwsHandledError" ->
            AppserverHandledError("OUT_OF_STOCK", "No items left", EmptyObject)
      [] beh = "throwsAuthError" -> AppserverAuthError
      [] beh = "throwsString" -> JsString("oops")
      [] OTHER -> JsError("boom")

ActionNames == {"create", "list"}
Handlers == {"h1", "h2"}

Request(contentType, body, authorization) ==
    [contentType |-> contentType, body |-> body, authorization |-> authorization]

Requests ==
    {Request(ct, b, a) : ct \in ContentTypes, b \in RequestBodies, a \in AuthorizationHeaders}

\* authHeader?.startsWith('Bearer ') ? authHeader.slice(7) : null
BearerToken(authorization) ==
    IF authorization.scheme = "Bearer" THEN JsString(authorization.rest) ELSE Null

\* `token ? .. : ..`: null and the empty string are falsy.
Truthy(token) == token # Null /\ token.repr # ""

\* parseInput(req), parseUser behaving as pu.
ParseInput(req, pu) ==
    IF req.contentType # "application/vnd.msgpack"
    THEN Thrown(AppserverError("REQUEST_INVALID_TYPE_HEADER",
                               "Content-Type must be a messagepack (application/vnd.msgpack)",
                               JsNumber(400), DefaultStatus))
    ELSE IF req.body = Undecodable
    THEN Thrown(AppserverError("REQUEST_INVALID_BODY", "Request body is not valid msgpack",
                               JsNumber(400), DefaultStatus))
    ELSE IF ~Truthy(BearerToken(req.authorization))
    THEN Returned([data |-> req.body, user |-> Null])
    ELSE CASE pu = "user" -> Returned([data |-> req.body, user |-> User])
           [] pu = "null" -> Returned([data |-> req.body, user |-> Null])
           [] OTHER -> Thrown(ThrownBy(pu))

\* What the try/catch of the route handler evaluates to, with the handler
\* calls made and the lines logged on the way.
Reply(status, data, calls, log) ==
    [escaped |-> FALSE, status |-> status, data |-> data, calls |-> calls, log |-> log]

\* An exception leaving the route handler: no value, no response.
Escape(e, calls) ==
    [escaped |-> TRUE, status |-> 0, data |-> e, calls |-> calls, log |-> << >>]

CatchRethrow(e, calls) ==
    IF InstanceOfAppserverError(e)
    THEN Reply(e.status, [error |-> e.repr, code |-> e.code, payload |-> e.payload],
               calls, << >>)
    ELSE Escape(e, calls)

\* catch (e) { .. }
Catch(e, calls) ==
    IF InstanceOfAppserverError(e)
    THEN Reply(e.status, [error |-> e.repr, code |-> e.code, payload |-> e.payload],
               calls, << >>)
    ELSE Reply(500, [error |-> "Internal server error", code |-> "INTERNAL_SERVERERROR"],
               calls, << [text |-> "Unhandled server error:", value |-> e] >>)

\* What handler h resolves with for an input.
Output(h, data) == [by |-> h, echo |-> data.q]

HandlerCall(h, data, user) == [handler |-> h, input |-> data, user |-> user]

TryBlockValidateFirst(route, req, pu, hb) ==
    LET p == ParseInput(req, pu)
    IN  IF p.thrown THEN Catch(p.value, << >>)
        ELSE IF ~Check(route.inputSchema, p.value.data)
        THEN Reply(422, [errors |-> Errors(route.inputSchema, p.value.data),
                         received |-> p.value.data], << >>, << >>)
        ELSE IF route.auth /\ p.value.user = Null
        THEN Reply(401, [error |-> "Authentication required",
                         code |-> "AUTHENTICATION_REQUIRED"], << >>, << >>)
        ELSE IF hb = "returns"
        THEN Reply(200, Output(route.handler, p.value.data),
                   << HandlerCall(route.handler, p.value.data, p.value.user) >>, << >>)
        ELSE Catch(ThrownBy(hb), << HandlerCall(route.handler, p.value.data, p.value.user) >>)

TryBlockNoValidation(route, req, pu, hb) ==
    LET p == ParseInput(req, pu)
    IN  IF p.thrown THEN Catch(p.value, << >>)
        ELSE IF route.auth /\ p.value.user = Null
        THEN Reply(401, [error |-> "Authentication required",
                         code |-> "AUTHENTICATION_REQUIRED"], << >>, << >>)
        ELSE IF hb = "returns"
        THEN Reply(200, Output(route.handler, p.value.data),
                   << HandlerCall(route.handler, p.value.data, p.value.user) >>, << >>)
        ELSE Catch(ThrownBy(hb), << HandlerCall(route.handler, p.value.data, p.value.user) >>)

\* try { parseInput; auth gate; schema check; handler } catch ..
TryBlock(route, req, pu, hb) ==
    LET p == ParseInput(req, pu)
    IN  IF p.thrown THEN Catch(p.value, << >>)
        ELSE IF route.auth /\ p.value.user = Null
        THEN Reply(401, [error |-> "Authentication required",
                         code |-> "AUTHENTICATION_REQUIRED"], << >>, << >>)
        ELSE IF ~Check(route.inputSchema, p.value.data)
        THEN Reply(422, [errors |-> Errors(route.inputSchema, p.value.data),
                         received |-> p.value.data], << >>, << >>)
        ELSE IF hb = "returns"
        THEN Reply(200, Output(route.handler, p.value.data),
                   << HandlerCall(route.handler, p.value.data, p.value.user) >>, << >>)
        ELSE Catch(ThrownBy(hb), << HandlerCall(route.handler, p.value.data, p.value.user) >>)

\* encode(data)
Encode(data) == [msgpack |-> data]

\* The route handler: the try/catch, then res.status(status).send(encode(data)).
RouteHandler(route, req, pu, hb) ==
    LET r == TryBlock(route, req, pu, hb)
    IN  [ op |-> "request", action |-> route.action, auth |-> route.auth,
          inputSchema |-> route.inputSchema, req |-> req,
          parseUser |-> IF req.contentType = "application/vnd.msgpack"
                           /\ req.body # Undecodable
                           /\ Truthy(BearerToken(req.authorization))
                        THEN pu ELSE "not called",
          handlerBehaviour |-> IF r.calls # << >> THEN hb ELSE "not called",
          escaped |-> r.escaped,
          responses |-> IF r.escaped THEN << >>
                        ELSE << [status |-> r.status, body |-> Encode(r.data)] >>,
          calls |-> r.calls, log |-> r.log ]

Route(action, inputSchema, auth, handler) ==
    [action |-> action, inputSchema |-> inputSchema, auth |-> auth, handler |-> handler]

\* constructor
NewAppserver == [registered |-> {}, routes |-> << >>, last |-> [op |-> "new"]]

RegisterUnchecked(srv, action, inputSchema, auth, handler) ==
    [srv EXCEPT !.registered = @ \cup {action},
                !.routes = Append(@, Route(action, inputSchema, auth, handler)),
                !.last = [op |-> "register", action |-> action, threw |-> FALSE]]

\* register(action, inputSchema, auth, handler)
RegisterAction(srv, action, inputSchema, auth, handler) ==
    IF action \in srv.registered
    THEN [srv EXCEPT !.last = [op |-> "register", action |-> action, threw |-> TRUE]]
    ELSE [srv EXCEPT !.registered = @ \cup {action},
                     !.routes = Append(@, Route(action, inputSchema, auth, handler)),
                     !.last = [op |-> "register", action |-> action, threw |-> FALSE]]

\* express hands a request to the first route added for its path.
FirstRoute(srv, action) ==
    LET i == CHOOSE i \in 1..Len(srv.routes) :
                 /\ srv.routes[i].action = action
                 /\ \A j \in 1..(i - 1) : srv.routes[j].action # action
    IN  srv.routes[i]

\* POST /exec/<action>
HandleRequest(srv, action, req, pu, hb) ==
    [srv EXCEPT !.last = RouteHandler(FirstRoute(srv, action), req, pu, hb)]

InitServer ==
    /\ UtilitiesIdle
    /\ DispatcherIdle
    /\ AsyncInputIdle
    /\ ClientIdle
    /\ server = NewAppserver

Register(action, inputSchema, auth, handler) ==
    /\ server' = RegisterAction(server, action, inputSchema, auth, handler)
    /\ UNCHANGED outsideServer

Post(action, req, pu, hb) ==
    /\ \E i \in 1..Len(server.routes) : server.routes[i].action = action
    /\ server' = HandleRequest(server, action, req, pu, hb)
    /\ UNCHANGED outsideServer

NextServer ==
    \/ \E action \in ActionNames : \E inputSchema \in Schemas : \E auth \in BOOLEAN :
          \E handler \in Handlers : Register(action, inputSchema, auth, handler)
    \/ \E action \in ActionNames : \E req \in Requests :
          \E pu \in ParseUserBehaviours : \E hb \in HandlerBehaviours :
             Post(action, req, pu, hb)

SpecServer == InitServer /\ [][NextServer]_vars

(***************************************************************************)
(* Claims about the server, checked under SpecServer.                      *)
(***************************************************************************)

ServerTypeOK ==
    /\ server.registered \subseteq ActionNames
    /\ {server.routes[i].action : i \in 1..Len(server.routes)} = server.registered

\* The last step handled a request.
Handled == server.last.op = "request"

\* The request of the last step passed the checks of parseInput.
Parsed ==
    /\ server.last.req.contentType = "application/vnd.msgpack"
    /\ server.last.req.body # Undecodable

\* The request of the last step carried no usable bearer token, or parseUser
\* resolved null for it.
NoUser ==
    \/ ~Truthy(BearerToken(server.last.req.authorization))
    \/ server.last.parseUser = "null"

\* The only response of the last step.
Response == server.last.responses[1]

\* C16: a request whose Content-Type is not application/vnd.msgpack, or whose
\* body does not decode, is answered with status 400 and the handler is not
\* invoked.
C16_ParseRejectionIs400 ==
    (Handled /\ ~Parsed) =>
        /\ Len(server.last.responses) = 1
        /\ Response.status = 400
        /\ server.last.calls = << >>

\* What is left of C16: the request is answered with the error's code and the
\* handler is not invoked.
ParseRejectionSkipsHandler ==
    (Handled /\ ~Parsed) =>
        /\ Len(server.last.responses) = 1
        /\ Response.body.msgpack.code \in {"REQUEST_INVALID_TYPE_HEADER", "REQUEST_INVALID_BODY"}
        /\ server.last.calls = << >>

\* C17: on an action registered with auth, a parsed request with no bearer
\* token, or whose token parseUser resolves to null, is answered 401
\* AuthenticationRequired and the handler is not invoked, whether or not its
\* input satisfies the schema.
C17_AuthGateBeforeValidation ==
    (Handled /\ Parsed /\ server.last.auth /\ NoUser) =>
        /\ server.last.responses =
              << [status |-> 401,
                  body |-> Encode([error |-> "Authentication required",
                                   code |-> "AUTHENTICATION_REQUIRED"])] >>
        /\ server.last.calls = << >>

\* C17 witness: such a request whose input fails the schema got 401.
C17_Witness ==
    /\ Handled /\ Parsed /\ server.last.auth /\ NoUser
    /\ ~Check(server.last.inputSchema, server.last.req.body)
    /\ Response.status = 401

\* The request of the last step passed parseInput and the auth gate.
Admitted ==
    /\ Handled /\ Parsed
    /\ server.last.parseUser # "throwsError"
    /\ ~(server.last.auth /\ NoUser)

\* C18: the handler is only invoked with input that satisfies the schema; an
\* admitted request whose input fails it is answered 422 with a non-empty
\* error list and the received body, and nothing is logged.
C18_HandlerSeesOnlyValidInput ==
    Handled =>
        /\ \A i \in 1..Len(server.last.calls) :
              Check(server.last.inputSchema, server.last.calls[i].input)
        /\ (Admitted /\ ~Check(server.last.inputSchema, server.last.req.body)) =>
              /\ Len(server.last.responses) = 1
              /\ Response.status = 422
              /\ Response.body.msgpack.errors # {}
              /\ Response.body.msgpack.received = server.last.req.body
              /\ server.last.log = << >>
              /\ server.last.calls = << >>

\* C18 witness: an authenticated request with an input failing the schema.
C18_Witness ==
    /\ Admitted
    /\ server.last.auth
    /\ ~Check(server.last.inputSchema, server.last.req.body)
    /\ Response.status = 422

\* The body sent for an error e that is an AppserverError.
ErrorBody(e) == Encode([error |-> e.repr, code |-> e.code, payload |-> e.payload])

InternalServerError ==
    [status |-> 500,
     body |-> Encode([error |-> "Internal server error", code |-> "INTERNAL_SERVERERROR"])]

C20_DuplicateRegisterThrows ==
    [][\A action \in ActionNames : \A inputSchema \in Schemas : \A auth \in BOOLEAN :
          \A handler \in Handlers :
             (Register(action, inputSchema, auth, handler) /\ action \in server.registered) =>
                 /\ server'.last.threw
                 /\ server'.registered = server.registered
                 /\ server'.routes = server.routes]_vars

\* C20 witness: a second register of a name threw while both names were
\* registered.
C20_Witness ==
    /\ server.last.op = "register"
    /\ server.last.threw
    /\ server.registered = ActionNames

(***************************************************************************)
(* GET /metrics        src/src/react-whispr.ts  (lines 578..607)           *)
(*                                                                         *)
(* A metric name is a string, modelled as the sequence of its characters   *)
(* over an alphabet with one character of each kind the normalisation      *)
(* tells apart: a lower-case letter, an upper-case letter, a digit, the    *)
(* underscore and a character outside [A-Za-z0-9_].                        *)
(***************************************************************************)
MaxNameLen == 2       \* characters of a metric name

Chars == {"a", "A", "7", "_", "-"}

Names == UNION {[1..n -> Chars] : n \in 0..MaxNameLen}

\* String.prototype.toLowerCase, one character.
LowerChar(c) == IF c = "A" THEN "a" ELSE c

\* name.toLowerCase()
ToLowerCase(s) == [i \in 1..Len(s) |-> LowerChar(s[i])]

\* The character class [a-z0-9_].
WordChars == {"a", "7", "_"}

\* .replace(/[^a-z0-9_]/g, '_')
ReplaceNonWord(s) == [i \in 1..Len(s) |-> IF s[i] \in WordChars THEN s[i] ELSE "_"]

\* .replace(/_+/g, '_')
RECURSIVE CollapseUnderscores(_)
CollapseUnderscores(s) ==
    IF Len(s) < 2 THEN s
    ELSE IF s[1] = "_" /\ s[2] = "_" THEN CollapseUnderscores(Tail(s))
    ELSE <<s[1]>> \o CollapseUnderscores(Tail(s))

\* .replace(/^_+/, '')
RECURSIVE TrimLeft(_)
TrimLeft(s) == IF s # << >> /\ s[1] = "_" THEN TrimLeft(Tail(s)) ELSE s

\* .replace(/_+$/, '')
RECURSIVE TrimRight(_)
TrimRight(s) ==
    IF s # << >> /\ s[Len(s)] = "_" THEN TrimRight(SubSeq(s, 1, Len(s) - 1)) ELSE s

\* .replace(/^_+|_+$/g, '')
TrimUnderscores(s) == TrimRight(TrimLeft(s))

AppPrefix == <<"a", "p", "p", "_">>

\* 'app_' + name.toLowerCase().replace(..).replace(..).replace(..)
PrometheusName(name) ==
    AppPrefix \o TrimUnderscores(CollapseUnderscores(ReplaceNonWord(ToLowerCase(name))))

\* The values getMetrics() may hold: a finite number, NaN, and (past the
\* declared type) a string.
NaN == [kind |-> "number", repr |-> "NaN"]

MetricValues == {JsNumber(12), NaN, JsString("12")}

\* typeof value === 'number' && isFinite(value)
FiniteNumber(v) == v.kind = "number" /\ v # NaN

\* Object.entries(metrics): entries in insertion order, keys distinct.
MetricEntries == [name : Names, value : MetricValues]

Snapshots ==
    {<< >>} \cup {<<e>> : e \in MetricEntries}
        \cup {s \in MetricEntries \X MetricEntries : s[1].name # s[2].name}

\* What getMetrics() does: it returns a snapshot or throws.
GetMetricsThrows == [throws |-> TRUE, entries |-> << >>]

GetMetricsOutcomes == {[throws |-> FALSE, entries |-> s] : s \in Snapshots} \cup {GetMetricsThrows}

\* `# TYPE ${prometheusName} gauge\n${prometheusName} ${value}\n`, kept as
\* the two fields the template prints.
Gauge(entry) == [name |-> PrometheusName(entry.name), value |-> entry.value.repr]

\* handleMetricsRequest: the response sent and what was logged.
HandleMetricsRequest(outcome) ==
    IF ~outcome.throws /\ \A i \in 1..Len(outcome.entries) : FiniteNumber(outcome.entries[i].value)
    THEN [getMetrics |-> outcome,
          status |-> 200,
          type |-> "text/plain",
          body |-> [i \in 1..Len(outcome.entries) |-> Gauge(outcome.entries[i])],
          log |-> << >>]
    ELSE [getMetrics |-> outcome,
          status |-> 500,
          type |-> "text/plain",
          body |-> <<"# Error generating metrics">>,
          log |-> <<"Error generating metrics:">>]

\* A request that has not been answered: what getMetrics() is going to do.
MetricsRequest(outcome) ==
    [getMetrics |-> outcome, status |-> 0, type |-> "", body |-> << >>, log |-> << >>]

InitMetrics ==
    /\ DispatcherIdle
    /\ AsyncInputIdle
    /\ ClientIdle
    /\ ServerIdle
    /\ StorageIdle
    /\ ClockIdle
    /\ SearcherIdle
    /\ \E outcome \in GetMetricsOutcomes : metrics = MetricsRequest(outcome)

\* GET /metrics
GetMetrics ==
    /\ metrics.status = 0
    /\ metrics' = HandleMetricsRequest(metrics.getMetrics)
    /\ UNCHANGED outsideMetrics

NextMetrics == GetMetrics

SpecMetrics == InitMetrics /\ [][NextMetrics]_vars

\* The pattern ^app_[a-z0-9_]+$ .
MatchesAppPattern(s) ==
    /\ Len(s) > Len(AppPrefix)
    /\ SubSeq(s, 1, Len(AppPrefix)) = AppPrefix
    /\ \A i \in (Len(AppPrefix) + 1)..Len(s) : s[i] \in WordChars

\* No leading, trailing or consecutive underscore after the app_ prefix.
CleanUnderscores(s) ==
    /\ Len(s) > Len(AppPrefix) => s[Len(AppPrefix) + 1] # "_" /\ s[Len(s)] # "_"
    /\ \A i \in (Len(AppPrefix) + 1)..(Len(s) - 1) : ~(s[i] = "_" /\ s[i + 1] = "_")

\* C21: every name emitted by GET /metrics matches ^app_[a-z0-9_]+$ and has
\* no leading, trailing or consecutive underscores after the app_ prefix,
\* whatever the metric name was.
C21_MetricsNormalization ==
    metrics.status = 200 =>
        \A i \in 1..Len(metrics.body) :
            /\ MatchesAppPattern(metrics.body[i].name)
            /\ CleanUnderscores(metrics.body[i].name)

\* The part of C21 that does hold: the emitted name is app_ followed by
\* characters of [a-z0-9_] (possibly none) without leading, trailing or
\* consecutive underscores.
MetricsNamesClean ==
    metrics.status = 200 =>
        \A i \in 1..Len(metrics.body) :
            LET s == metrics.body[i].name IN
            /\ SubSeq(s, 1, Len(AppPrefix)) = AppPrefix
            /\ \A j \in (Len(AppPrefix) + 1)..Len(s) : s[j] \in WordChars
            /\ CleanUnderscores(s)

(***************************************************************************)
(* Appstorage          src/src/Appstorage.ts  (lines 24..189)              *)
(*                                                                         *)
(* localStorage is shared by the processes (browser tabs) of one origin;   *)
(* every process has its own Appstorage singleton and its own              *)
(* AppstorageItem instances over it.  One call of getItem or setItem is    *)
(* atomic, and a task (a method call, a timer callback) runs to its end    *)
(* before another task of any process touches localStorage.                *)
(***************************************************************************)
MaxRev == 3           \* largest rev an item is driven to

Procs == {"A", "B"}

Keys == {"k"}

PREFIX == "app:"

\* `${this.PREFIX}${key}`
Prefixed(key) == <<PREFIX, key>>

\* The data a caller stores: objects told apart by their content.
Obj(c) == [kind |-> "object", repr |-> c]

DataValues == {Obj("x"), Obj("y")}

\* AppstorageItemData
ItemData(key, rev, deleted, data) ==
    [key |-> Prefixed(key), rev |-> rev, deleted |-> deleted, data |-> data]

\* JSON.stringify / JSON.parse of a record of JSON-encodable fields: the
\* text holds the four fields and parsing gives them back.
JSONStringify(v) == [json |-> v]

JSONParse(text) == text.json

\* localStorage.getItem(k) of a key that is not there.
NoRecord == [json |-> Null]

\* AppstorageItem.loadData, for a key that is in localStorage.
LoadData(ls, key) == JSONParse(ls[Prefixed(key)])

\* An AppstorageItem: the value of its `data` cell and whether the 500 ms
\* Dispatcher over the cell has a flush waiting.  Every write of the cell
\* (the initial value included) restarts the debounce.
NoItem == [data |-> ItemData("", 0, FALSE, Null), flushPending |-> FALSE, made |-> FALSE]

Item(data) == [data |-> data, flushPending |-> TRUE, made |-> TRUE]

\* new AppstorageItem(PREFIX, key)
NewItem(ls, key) == Item(LoadData(ls, key))

\* AppstorageItem.get: the instance of the key, made on first use.
ItemGet(ls, items, key) == IF items[key].made THEN items[key] ELSE NewItem(ls, key)

\* item.update(data)
ItemUpdate(item, key, data) == Item(ItemData(key, item.data.rev + 1, FALSE, data))

\* item.remove()
ItemRemove(item, key) == Item(ItemData(key, item.data.rev + 1, TRUE, EmptyObject))

\* A flush that writes whatever is persisted.
ItemFlushAlways(ls, item, key) == [ls EXCEPT ![Prefixed(key)] = JSONStringify(item.data)]

\* item.flush(): the new content of localStorage
ItemFlush(ls, item, key) ==
    IF item.data.rev > LoadData(ls, key).rev
    THEN [ls EXCEPT ![Prefixed(key)] = JSONStringify(item.data)]
    ELSE ls

\* A refresh that keeps the in-memory record.
ItemRefreshNever(ls, item, key) == item

\* A refresh that takes the persisted record whatever its rev.
ItemRefreshAlways(ls, item, key) == Item(LoadData(ls, key))

\* item.refresh()
ItemRefresh(ls, item, key) ==
    IF LoadData(ls, key).rev > item.data.rev THEN Item(LoadData(ls, key)) ELSE item

\* One process: its AppstorageItem.instances and the keys of Appstorage.index
\* (the index maps a key to the instance of that key).
NewProc == [items |-> [k \in Keys |-> NoItem], index |-> {}]

\* Appstorage.listData
ListData(ls) == {k \in Keys : ls[Prefixed(k)] # NoRecord}

\* Appstorage.refresh
AppstorageRefresh(ls, proc) ==
    LET unseen == {k \in ListData(ls) : k \notin proc.index}
        items == [k \in Keys |-> IF k \in unseen THEN ItemGet(ls, proc.items, k)
                                              ELSE proc.items[k]]
        newitems == {k \in unseen : ~items[k].data.deleted}
    IN  [items |-> items, index |-> proc.index \cup newitems]

\* Appstorage.get: the process after the call and whether the call threw.
AppstorageGet(ls, proc, key) ==
    LET p == AppstorageRefresh(ls, proc)
    IN  [proc |-> p, threw |-> key \notin p.index]

\* An add that does not look for an existing record.
AppstorageAddUnchecked(ls, proc, key, data) ==
    LET ls2 == [ls EXCEPT ![Prefixed(key)] = JSONStringify(ItemData(key, 0, FALSE, data))]
        got == AppstorageGet(ls2, AppstorageRefresh(ls2, proc), key)
    IN  [ls |-> ls2, proc |-> got.proc, threw |-> got.threw]

\* Appstorage.add: localStorage and the process after the call, and whether
\* the call threw.
AppstorageAdd(ls, proc, key, data) ==
    IF ls[Prefixed(key)] # NoRecord
    THEN [ls |-> ls, proc |-> proc, threw |-> TRUE]
    ELSE LET ls2 == [ls EXCEPT ![Prefixed(key)] =
                                    JSONStringify(ItemData(key, 0, FALSE, data))]
             got == AppstorageGet(ls2, AppstorageRefresh(ls2, proc), key)
         IN  [ls |-> ls2, proc |-> got.proc, threw |-> got.threw]

\* The last call or timer callback.
Last(op, p, key, threw) == [op |-> op, proc |-> p, key |-> key, threw |-> threw]

InitStorage ==
    /\ DispatcherIdle
    /\ AsyncInputIdle
    /\ ClientIdle
    /\ ServerIdle
    /\ MetricsIdle
    /\ ClockIdle
    /\ SearcherIdle
    /\ storage = [localStorage |-> [k \in {Prefixed(key) : key \in Keys} |-> NoRecord],
                  procs |-> [p \in Procs |-> NewProc],
                  last |-> Last("getInstance", "A", "", FALSE)]

\* The items a caller of process p can hold: those the index has returned.
Held(p, key) == key \in storage.procs[p].index

\* appstorage.add(key, data)
Add(p, key, data) ==
    /\ LET r == AppstorageAdd(storage.localStorage, storage.procs[p], key, data)
       IN  storage' = [localStorage |-> r.ls,
                       procs |-> [storage.procs EXCEPT ![p] = r.proc],
                       last |-> Last("add", p, key, r.threw)]
    /\ UNCHANGED outsideStorage

\* appstorage.get(key)
Get(p, key) ==
    /\ LET r == AppstorageGet(storage.localStorage, storage.procs[p], key)
       IN  storage' = [storage EXCEPT !.procs[p] = r.proc,
                                      !.last = Last("get", p, key, r.threw)]
    /\ UNCHANGED outsideStorage

\* item.update(data)
Update(p, key, data) ==
    /\ Held(p, key)
    /\ storage.procs[p].items[key].data.rev < MaxRev
    /\ storage' = [storage EXCEPT
                      !.procs[p].items[key] = ItemUpdate(@, key, data),
                      !.last = Last("update", p, key, FALSE)]
    /\ UNCHANGED outsideStorage

\* item.remove()
Remove(p, key) ==
    /\ Held(p, key)
    /\ storage.procs[p].items[key].data.rev < MaxRev
    /\ storage' = [storage EXCEPT
                      !.procs[p].items[key] = ItemRemove(@, key),
                      !.last = Last("remove", p, key, FALSE)]
    /\ UNCHANGED outsideStorage

\* item.flush(), called by the owner of the item
Flush(p, key) ==
    /\ Held(p, key)
    /\ storage' = [storage EXCEPT
                      !.localStorage = ItemFlush(@, storage.procs[p].items[key], key),
                      !.last = Last("flush", p, key, FALSE)]
    /\ UNCHANGED outsideStorage

\* The item's Dispatcher, 500 ms after the last write of the cell: flush().
DebouncedFlush(p, key) ==
    /\ storage.procs[p].items[key].flushPending
    /\ storage' = [storage EXCEPT
                      !.localStorage = ItemFlush(@, storage.procs[p].items[key], key),
                      !.procs[p].items[key].flushPending = FALSE,
                      !.last = Last("debouncedFlush", p, key, FALSE)]
    /\ UNCHANGED outsideStorage

\* The 200 ms timer of AppstorageItem: every instance of the process refreshes.
ItemsRefresh(p) ==
    /\ storage' = [storage EXCEPT
                      !.procs[p].items =
                          [k \in Keys |-> IF @[k].made
                                          THEN ItemRefresh(storage.localStorage, @[k], k)
                                          ELSE @[k]],
                      !.last = Last("itemsRefresh", p, "", FALSE)]
    /\ UNCHANGED outsideStorage

\* The 200 ms timer of Appstorage: refresh().
IndexRefresh(p) ==
    /\ storage' = [storage EXCEPT
                      !.procs[p] = AppstorageRefresh(storage.localStorage, @),
                      !.last = Last("indexRefresh", p, "", FALSE)]
    /\ UNCHANGED outsideStorage

NextStorage ==
    \E p \in Procs :
        \/ \E key \in Keys : \E data \in DataValues : Add(p, key, data)
        \/ \E key \in Keys : Get(p, key)
        \/ \E key \in Keys : \E data \in DataValues : Update(p, key, data)
        \/ \E key \in Keys : Remove(p, key)
        \/ \E key \in Keys : Flush(p, key)
        \/ \E key \in Keys : DebouncedFlush(p, key)
        \/ ItemsRefresh(p)
        \/ IndexRefresh(p)

SpecStorage == InitStorage /\ [][NextStorage]_vars

StorageTypeOK ==
    /\ \A p \in Procs : storage.procs[p].index \subseteq Keys
    /\ \A p \in Procs : \A k \in Keys :
          storage.procs[p].items[k].made => storage.localStorage[Prefixed(k)] # NoRecord
    /\ \A p \in Procs : \A k \in storage.procs[p].index : storage.procs[p].items[k].made

\* The in-memory record of key k in process p.
Mem(p, k) == storage.procs[p].items[k].data

\* The persisted record of key k (the key is in localStorage).
Persisted(k) == LoadData(storage.localStorage, k)

\* The step just taken was operation op of process p on key k.
Did(op, p, k) == storage.last.op = op /\ storage.last.proc = p /\ storage.last.key = k

\* C22: over update, remove, the background refresh and flush, the in-memory
\* rev of an item never decreases; update and remove add exactly one to it,
\* update clears deleted, remove sets deleted and resets data to the empty
\* object.
C22_RevMonotonic ==
    [][\A p \in Procs : \A k \in Keys :
          storage.procs[p].items[k].made =>
              /\ storage'.procs[p].items[k].made
              /\ Mem(p, k)'.rev >= Mem(p, k).rev
              /\ Did("update", p, k)' =>
                    /\ Mem(p, k)'.rev = Mem(p, k).rev + 1
                    /\ ~Mem(p, k)'.deleted
                    /\ Mem(p, k)'.data \in DataValues
              /\ Did("remove", p, k)' =>
                    /\ Mem(p, k)'.rev = Mem(p, k).rev + 1
                    /\ Mem(p, k)'.deleted
                    /\ Mem(p, k)'.data = EmptyObject]_vars

\* C22 witness: an item that was updated and flushed has just been removed in
\* memory, one rev above its persisted record.
C22_Witness ==
    \E p \in Procs : \E k \in Keys :
        /\ Did("remove", p, k)
        /\ Mem(p, k).deleted
        /\ Persisted(k).rev > 0
        /\ Mem(p, k).rev = Persisted(k).rev + 1

\* The step just taken was a flush() of the item of key k in process p, called
\* by its owner or by the item's Dispatcher.
Flushed(p, k) == Did("flush", p, k) \/ Did("debouncedFlush", p, k)

\* C23: immediately after flush() returns, the persisted rev of the item
\* equals its in-memory rev, in every reachable state, those where another
\* process has written the same key included.
C23_FlushedRevEqual ==
    \A p \in Procs : \A k \in Keys :
        Flushed(p, k) => Persisted(k).rev = Mem(p, k).rev

\* C23 amended: after flush() returns, the persisted rev is the larger of the
\* in-memory rev and the rev persisted before; the in-memory record is
\* what is persisted exactly when its rev was strictly greater, and a record
\* of a greater or equal rev written by another process is left as it is.
C23_Amended ==
    [][\A p \in Procs : \A k \in Keys :
          Flushed(p, k)' =>
              /\ Mem(p, k)' = Mem(p, k)
              /\ Persisted(k)'.rev >= Mem(p, k).rev
              /\ Mem(p, k).rev > Persisted(k).rev => Persisted(k)' = Mem(p, k)
              /\ Mem(p, k).rev <= Persisted(k).rev => Persisted(k)' = Persisted(k)]_vars

\* C23 witness: a flush has returned and the persisted rev is above the
\* in-memory rev, because the other process wrote after this one loaded.
C23_Witness ==
    \E p \in Procs : \E k \in Keys :
        /\ Flushed(p, k)
        /\ Persisted(k).rev > Mem(p, k).rev

\* C24: when the persisted record of an item has a rev strictly greater than
\* the in-memory rev, the next refresh replaces the in-memory record with the
\* persisted one (rev, data and deleted flag), and a flush of the item, before
\* or after that refresh, leaves the persisted record as it is.
C24_CrossProcessMerge ==
    [][\A p \in Procs : \A k \in Keys :
          /\ (/\ storage.procs[p].items[k].made
              /\ Persisted(k).rev > Mem(p, k).rev
              /\ Did("itemsRefresh", p, "")') =>
                 /\ Mem(p, k)' = Persisted(k)
                 /\ Persisted(k)' = Persisted(k)
          /\ (/\ storage.procs[p].items[k].made
              /\ Persisted(k).rev >= Mem(p, k).rev
              /\ Flushed(p, k)') =>
                 /\ Persisted(k)' = Persisted(k)
                 /\ Mem(p, k)' = Mem(p, k)]_vars

\* C24 witness: after a refresh the in-memory record of one process is the
\* record the other process persisted, at a rev the first never wrote.
C24_Witness ==
    \E p \in Procs : \E q \in Procs \ {p} : \E k \in Keys :
        /\ Did("itemsRefresh", p, "")
        /\ storage.procs[p].items[k].made
        /\ Mem(p, k) = Persisted(k)
        /\ Mem(q, k) = Persisted(k)
        /\ Mem(p, k).rev > 0
        /\ ~storage.procs[q].items[k].flushPending

\* C24 witness: a flush has returned after such a refresh and the record of
\* the other process is still the persisted one.
C24_FlushAfterMerge ==
    \E p \in Procs : \E q \in Procs \ {p} : \E k \in Keys :
        /\ Flushed(p, k)
        /\ Mem(p, k) = Persisted(k)
        /\ Mem(q, k) = Persisted(k)
        /\ Mem(p, k).rev > 0

\* Processes p and q hold the item of key k at the same rev with different
\* content.
Tie(p, q, k) ==
    /\ p # q
    /\ storage.procs[p].items[k].made
    /\ storage.procs[q].items[k].made
    /\ Mem(p, k).rev = Mem(q, k).rev
    /\ Mem(p, k) # Mem(q, k)

\* C25: when two processes hold the same item at the same rev with different
\* data and both flush, the record of the process that flushed later is the
\* persisted one.
C25_TieLaterFlushPersists ==
    \A p \in Procs : \A q \in Procs : \A k \in Keys :
        (/\ Tie(p, q, k)
         /\ Flushed(p, k)
         /\ Persisted(k) \in {Mem(p, k), Mem(q, k)}) =>
            Persisted(k) = Mem(p, k)

\* What holds in a tie: the flush of the second process writes nothing, so the
\* record flushed first stays persisted; and every persisted record is one
\* whole record some process held.
TieFirstFlushStays ==
    [][\A p \in Procs : \A q \in Procs : \A k \in Keys :
          (Tie(p, q, k) /\ Persisted(k) = Mem(q, k) /\ Flushed(p, k)') =>
              Persisted(k)' = Mem(q, k)]_vars

\* C26: the in-memory record replaces the persisted record exactly when its
\* rev is strictly greater; in every other case, equal revs with different
\* data included, the in-memory record has the persisted record's content
\* after a refresh.
C26_MergeRule ==
    /\ \A p \in Procs : \A k \in Keys :
          (/\ Did("itemsRefresh", p, "")
           /\ storage.procs[p].items[k].made
           /\ Mem(p, k).rev <= Persisted(k).rev) =>
              Mem(p, k) = Persisted(k)
    /\ \A p \in Procs : \A k \in Keys :
          Flushed(p, k) => Mem(p, k).rev <= Persisted(k).rev

\* What holds of the merge rule: a flush persists the in-memory record exactly
\* when its rev is strictly greater, and a refresh takes the persisted record
\* exactly when the persisted rev is strictly greater.
MergeRuleStrict ==
    [][\A p \in Procs : \A k \in Keys :
          /\ Flushed(p, k)' =>
                (Persisted(k)' = Mem(p, k) /\ Persisted(k)' # Persisted(k))
                    <=> Mem(p, k).rev > Persisted(k).rev
          /\ (Did("itemsRefresh", p, "")' /\ storage.procs[p].items[k].made) =>
                (Mem(p, k)' = Persisted(k) /\ Mem(p, k)' # Mem(p, k))
                    <=> Persisted(k).rev > Mem(p, k).rev]_vars

\* C27: the index never enumerates a tombstoned item: a key is never added
\* while its persisted record is deleted, and after a background refresh or a
\* get no indexed item is deleted.
C27_IndexExcludesTombstones ==
    \A p \in Procs :
        (storage.last.proc = p /\ storage.last.op \in {"indexRefresh", "get"}) =>
            \A k \in storage.procs[p].index : ~Mem(p, k).deleted

\* The first half of C27 alone: a key is not added to the index while its
\* persisted record is deleted.
TombstoneNeverAdded ==
    [][\A p \in Procs : \A k \in Keys :
          (k \notin storage.procs[p].index /\ k \in storage'.procs[p].index) =>
              ~Persisted(k)'.deleted]_vars

\* C28: add(key, data) throws when persistence already holds a record at
\* prefix + key and leaves the persisted record, the in-memory items and the
\* index as they were; when the key is free it persists
\* {rev: 0, deleted: false, data} and returns an item that is in the index.
C28_AddCollisionThrows ==
    [][\A p \in Procs : \A k \in Keys : \A data \in DataValues :
          Add(p, k, data) =>
              IF storage.localStorage[Prefixed(k)] # NoRecord
              THEN /\ storage'.last.threw
                   /\ storage'.localStorage = storage.localStorage
                   /\ storage'.procs = storage.procs
              ELSE /\ ~storage'.last.threw
                   /\ Persisted(k)' = ItemData(k, 0, FALSE, data)
                   /\ k \in storage'.procs[p].index
                   /\ Mem(p, k)' = ItemData(k, 0, FALSE, data)]_vars

\* C28 witness: an add has thrown on a key whose record another process had
\* persisted, and the caller's index does not have the key.
C28_Witness ==
    \E p \in Procs : \E k \in Keys :
        /\ Did("add", p, k)
        /\ storage.last.threw
        /\ k \notin storage.procs[p].index
        /\ storage.localStorage[Prefixed(k)] # NoRecord

(***************************************************************************)
(* Searcher            src/unnamed/part_011  (lines 7..31, ordered)        *)
(*                     src/unnamed/part_010  (lines 8..27, unordered)      *)
(*                                                                         *)
(* A string is the sequence of its characters.  The owner of a Searcher    *)
(* has one document array: it gives it to the constructor and may give it  *)
(* again through updateData.                                               *)
(***************************************************************************)
MaxDocs == 2          \* documents of a Searcher

Str1(c) == <<c>>

Str2(c, d) == <<c, d>>

\* The queries a document may carry.
QueryLists ==
    {<<Str1("a")>>, <<Str1("A")>>, <<Str1("b")>>, <<Str2("b", "A")>>,
     <<Str1("b"), Str2("A", "b")>>}

\* The strings searched for.
Queries == {<< >>, Str1("a"), Str1("A"), Str1("b"), Str2("a", "b")}

Orders == {0, 1}

\* SearcherData<T>; doc tells the documents of one array apart.
SearcherData(queries, order, doc) == [queries |-> queries, order |-> order, doc |-> doc]

\* The document arrays of an owner: the i-th document carries doc = i.
DocArrays ==
    UNION {{[i \in 1..n |-> SearcherData(f[i][1], f[i][2], i)] :
                f \in [1..n -> QueryLists \X Orders]} : n \in 0..MaxDocs}

\* q.includes(needle)
Includes(q, needle) ==
    \E i \in 0..(Len(q) - Len(needle)) :
        \A j \in 1..Len(needle) : q[i + j] = needle[j]

\* item.queries.some(q => q.includes(query.toLowerCase()))
SomeIncludes(item, query) ==
    \E n \in 1..Len(item.queries) : Includes(item.queries[n], ToLowerCase(query))

\* .filter(pred), pred given as the set of the indexes it accepts
RECURSIVE FilterFrom(_, _, _)
FilterFrom(data, accepted, i) ==
    IF i > Len(data) THEN << >>
    ELSE (IF i \in accepted THEN <<data[i]>> ELSE << >>) \o FilterFrom(data, accepted, i + 1)

Filter(data, accepted) == FilterFrom(data, accepted, 1)

\* Insertion of one element into an array sorted by order, behind the
\* elements of the same order.
RECURSIVE InsertByOrder(_, _)
InsertByOrder(sorted, item) ==
    IF sorted = << >> THEN <<item>>
    ELSE IF item.order - sorted[1].order < 0 THEN <<item>> \o sorted
    ELSE <<sorted[1]>> \o InsertByOrder(Tail(sorted), item)

\* .sort((a, b) => a.order - b.order): Array.prototype.sort is stable.
RECURSIVE SortByOrderFrom(_, _, _)
SortByOrderFrom(data, sorted, i) ==
    IF i > Len(data) THEN sorted
    ELSE SortByOrderFrom(data, InsertByOrder(sorted, data[i]), i + 1)

SortByOrder(data) == SortByOrderFrom(data, << >>, 1)

\* .slice(0, limit), limit >= 0
Slice(data, limit) == SubSeq(data, 1, IF limit < Len(data) THEN limit ELSE Len(data))

\* Searcher.search of the ordered Searcher
SearchOrdered(data, query, limit) ==
    Slice(SortByOrder(Filter(data,
              {i \in 1..Len(data) : query = << >> \/ SomeIncludes(data[i], query)})),
          limit)

\* Searcher.search of the unordered Searcher
SearchUnordered(data, query) ==
    IF query = << >> THEN data
    ELSE Filter(data, {i \in 1..Len(data) : SomeIncludes(data[i], query)})

\* updateData of the ordered Searcher: queries are lower-cased at ingest.
UpdateDataOrdered(data) ==
    [i \in 1..Len(data) |->
        [data[i] EXCEPT !.queries = [n \in 1..Len(data[i].queries) |->
                                        ToLowerCase(data[i].queries[n])]]]

\* updateData of the unordered Searcher
UpdateDataUnordered(data) == data

SearcherKinds == {"ordered", "unordered"}

\* No search yet.
NoSearch == [op |-> "new", query |-> << >>, limit |-> 0, result |-> << >>]

\* new Searcher(data), with the array of its owner
NewSearcher(kind, docs) ==
    [kind |-> kind, docs |-> docs, data |-> docs, source |-> "constructor", last |-> NoSearch]

InitSearcher ==
    /\ DispatcherIdle
    /\ AsyncInputIdle
    /\ ClientIdle
    /\ ServerIdle
    /\ MetricsIdle
    /\ ClockIdle
    /\ StorageIdle
    /\ \E kind \in SearcherKinds : \E docs \in DocArrays : searcher = NewSearcher(kind, docs)

\* searcher.updateData(docs)
UpdateData ==
    /\ searcher' = [searcher EXCEPT
                       !.data = IF searcher.kind = "ordered" THEN UpdateDataOrdered(searcher.docs)
                                                            ELSE UpdateDataUnordered(searcher.docs),
                       !.source = "updateData",
                       !.last = [NoSearch EXCEPT !.op = "updateData"]]
    /\ UNCHANGED outsideSearcher

\* searcher.search(query, limit); the unordered Searcher takes no limit.
Search(query, limit) ==
    /\ searcher.kind = "unordered" => limit = 0
    /\ searcher' = [searcher EXCEPT
                       !.last = [op |-> "search", query |-> query, limit |-> limit,
                                 result |-> IF searcher.kind = "ordered"
                                            THEN SearchOrdered(searcher.data, query, limit)
                                            ELSE SearchUnordered(searcher.data, query)]]
    /\ UNCHANGED outsideSearcher

NextSearcher ==
    \/ UpdateData
    \/ \E query \in Queries : \E limit \in 0..MaxDocs : Search(query, limit)

SpecSearcher == InitSearcher /\ [][NextSearcher]_vars

\* The documents of the last search result.
Found == {searcher.last.result[j].doc : j \in 1..Len(searcher.last.result)}

\* The lower-cased query is a substring of the lower-cased form of one of the
\* document's queries.
Matches(item, query) ==
    \E n \in 1..Len(item.queries) :
        Includes(ToLowerCase(item.queries[n]), ToLowerCase(query))

\* C29: for a non-empty query a document is in the search result if and only
\* if the lower-cased query is a substring of the lower-cased form of one of
\* its queries, whether the documents came through the constructor or through
\* updateData (the ordered Searcher being asked for at least as many entries
\* as it has documents).
C29_SearcherSubstring ==
    (/\ searcher.last.op = "search"
     /\ searcher.last.query # << >>
     /\ searcher.kind = "ordered" => searcher.last.limit >= Len(searcher.docs)) =>
        \A i \in 1..Len(searcher.docs) :
            i \in Found <=> Matches(searcher.docs[i], searcher.last.query)

\* What holds of C29: the ordered Searcher whose documents came through
\* updateData finds exactly the documents that match.
SubstringAfterOrderedUpdate ==
    (/\ searcher.last.op = "search"
     /\ searcher.last.query # << >>
     /\ searcher.kind = "ordered"
     /\ searcher.source = "updateData"
     /\ searcher.last.limit >= Len(searcher.docs)) =>
        \A i \in 1..Len(searcher.docs) :
            i \in Found <=> Matches(searcher.docs[i], searcher.last.query)

\* The stored documents that match the query (every document for the empty
\* query), by index.
Matching(data, query) ==
    {i \in 1..Len(data) : query = << >> \/ Matches(data[i], query)}

\* The place of stored document i among the documents of M when they are
\* sorted by order ascending, equal orders in stored order.
Rank(data, M, i) ==
    1 + Cardinality({k \in M : \/ data[k].order < data[i].order
                               \/ data[k].order = data[i].order /\ k < i})

\* found is the documents of M sorted by order, equal orders in stored order,
\* cut to the first limit entries.
SortedAndCut(found, data, M, limit) ==
    /\ Len(found) = IF limit < Cardinality(M) THEN limit ELSE Cardinality(M)
    /\ \A i \in M : Rank(data, M, i) <= Len(found) => found[Rank(data, M, i)] = data[i]

\* C30: search(query, limit) of the ordered Searcher returns exactly the
\* matching documents sorted by order ascending, documents of equal order in
\* their stored relative order, cut to the first limit entries; the stored
\* array is not reordered by the search.
C30_OrderedSearch ==
    [][(searcher.kind = "ordered" /\ searcher'.last.op = "search") =>
          /\ SortedAndCut(searcher'.last.result, searcher.data,
                          Matching(searcher.data, searcher'.last.query),
                          searcher'.last.limit)
          /\ searcher'.data = searcher.data]_vars

\* What holds of C30: the same, for documents that came through updateData.
OrderedSearchAfterUpdate ==
    [][(/\ searcher.kind = "ordered"
        /\ searcher.source = "updateData"
        /\ searcher'.last.op = "search") =>
          /\ SortedAndCut(searcher'.last.result, searcher.data,
                          Matching(searcher.data, searcher'.last.query),
                          searcher'.last.limit)
          /\ searcher'.data = searcher.data]_vars

\* What holds of C30 for every ordered Searcher: the documents the search's
\* own test accepts are returned sorted, stable and cut, and the stored array
\* is left as it is.
OrderedSearchSorted ==
    [][(searcher.kind = "ordered" /\ searcher'.last.op = "search") =>
          /\ SortedAndCut(searcher'.last.result, searcher.data,
                          {i \in 1..Len(searcher.data) :
                              \/ searcher'.last.query = << >>
                              \/ SomeIncludes(searcher.data[i], searcher'.last.query)},
                          searcher'.last.limit)
          /\ searcher'.data = searcher.data]_vars

\* A search of the ordered Searcher that had to reorder and to cut: two
\* documents matched, the one stored second was returned alone.
OrderedSearchReordered ==
    /\ searcher.kind = "ordered"
    /\ searcher.last.op = "search"
    /\ Len(searcher.data) = 2
    /\ searcher.last.limit = 1
    /\ Len(searcher.last.result) = 1
    /\ searcher.last.result[1] = searcher.data[2]
    /\ Cardinality(Matching(searcher.data, searcher.last.query)) = 2

-----------------------------------------------------------------------------
(* Further claims about the Dispatcher, checked under SpecDispatcher       *)

\* The value of the last dispatch (the constructor's subscription dispatches
\* the value the input cell holds at construction).
LastDispatched == LastRun.data

\* C31: a notification with value v causes a dispatch if and only if v
\* differs from the last dispatched value by deep equality; a notification
\* with a value deep-equal to the last dispatched one, null included, causes
\* no reset, no abort and no call of the handler.
C31_ChangeDetection ==
    [][\A v \in Values : \A beh \in FBehaviours :
          Write(v, beh) =>
              IF isEqual(LastDispatched, v)
              THEN dispatcher' = dispatcher
              ELSE /\ Len(dispatcher'.runs) = Len(dispatcher.runs) + 1
                   /\ dispatcher'.lastValue = v]_vars

\* What holds of C31: the same for every value but null.
ChangeDetectionNonNull ==
    [][\A v \in Values \ {Null} : \A beh \in FBehaviours :
          Write(v, beh) =>
              IF isEqual(LastDispatched, v)
              THEN dispatcher' = dispatcher
              ELSE /\ Len(dispatcher'.runs) = Len(dispatcher.runs) + 1
                   /\ dispatcher'.lastValue = v]_vars

\* A null notification after a null dispatch has dispatched again.
NullDispatchedTwice ==
    /\ Len(dispatcher.runs) >= 2
    /\ input = Null
    /\ LastRun.replaced = Null

\* The controllers the Dispatcher has created: the constructor's and one per
\* dispatch.
Controllers == 0..Len(dispatcher.runs)

\* The runs whose call of f has not settled and whose controller is not
\* aborted.
LiveInvocations ==
    {c \in Runs(dispatcher) : /\ c \notin dispatcher.aborted
                              /\ dispatcher.runs[c].invoked > 0
                              /\ ~Ended(dispatcher.runs[c])}

\* C32: at every moment exactly the controller held in the state cell is
\* non-aborted among the controllers the Dispatcher created, every earlier
\* one having been aborted by the reset that replaced it; so at most one
\* invocation of f is live.
C32_OneCurrentController ==
    /\ \A c \in Controllers : c \notin dispatcher.aborted <=> c = dispatcher.controller
    /\ dispatcher.controller = Len(dispatcher.runs)
    /\ Cardinality(LiveInvocations) <= 1

\* C32 witness: the third dispatch is live, the two before it were aborted
\* while their handlers were running.
C32_Witness ==
    /\ Len(dispatcher.runs) = 3
    /\ LiveInvocations = {3}
    /\ dispatcher.runs[1].invoked > 0
    /\ dispatcher.runs[2].invoked > 0
    /\ ~Ended(dispatcher.runs[1])
    /\ {0, 1, 2} \subseteq dispatcher.aborted

-----------------------------------------------------------------------------
(* Further claims about useAsyncInput, checked under SpecAsyncInput        *)

\* C33: the internal meta is replaced by the external value._meta exactly
\* when value._meta.ts is strictly greater than meta.ts; an external value
\* whose ts is <= meta.ts never overwrites the config the user is editing.
C33_ExternalToInternalSync ==
    [][/\ \A config \in Configs : \A ts \in 0..MaxTs :
             ExternalChange(config, ts) =>
                 IF ts > meta.ts THEN meta' = Meta(config, ts) ELSE meta' = meta
       /\ (meta' # meta /\ ~\E config \in Configs : \E now \in 0..MaxTs :
                               UserEdit(config, now)) =>
             (meta' = value'._meta /\ value'._meta.ts > meta.ts)
       /\ value'._meta.ts <= meta'.ts]_vars

\* C33 witness: the owner's value has replaced a config the user had edited.
C33_Witness ==
    /\ value.r = "external"
    /\ meta = value._meta
    /\ Len(result_d.runs) >= 3

\* C33 witness of the other case: the owner changed the value at a ts that is
\* not above the edit's, and the edited config is still the internal one.
C33_EditKept ==
    /\ value.r = "external"
    /\ meta.config # value._meta.config
    /\ value._meta.ts = meta.ts

-----------------------------------------------------------------------------
(* Further claims about the client, checked under SpecClient               *)

\* The calls made by the user Dispatcher's function.
WhoamiCalls == {i \in 1..Len(client.calls) : client.calls[i].run # 0}

\* The path exec(action, ..) hands to unsafeExec.
ExecPath(action) == "/exec/" \o action

\* C34: for a null token the user Dispatcher resolves null without a request;
\* for a non-null token it resolves the user through a POST to
\* url + "/exec/auth/whoami", built as every exec call is, with that token as
\* bearer.
C34_UserResolution ==
    /\ client.authToken = Null =>
          /\ client.user.payload = Ok(Null)
          /\ \A i \in WhoamiCalls : client.calls[i].run # client.user.controller
    /\ \A i \in WhoamiCalls :
          /\ client.calls[i].path = ExecPath("auth/whoami")
          /\ client.calls[i].testedToken = client.user.runs[client.calls[i].run].data
          /\ client.calls[i].testedToken # Null

\* What holds of C34: everything but the path of the request.
UserResolutionButPath ==
    /\ client.authToken = Null =>
          /\ client.user.payload = Ok(Null)
          /\ \A i \in WhoamiCalls : client.calls[i].run # client.user.controller
    /\ \A i \in WhoamiCalls :
          /\ client.calls[i].path = "auth/whoami"
          /\ client.calls[i].testedToken # Null
    /\ \A c \in Runs(client.user) :
          (c \notin client.user.aborted /\ client.user.runs[c].data # Null) =>
              \E i \in WhoamiCalls : /\ client.calls[i].run = c
                                     /\ client.calls[i].testedToken = client.user.runs[c].data

\* C36: login(t) resolves true only if the whoami call made with token t
\* succeeded; if that call is answered 401 or 403, login(t) resolves false.
C36_LoginReportsWhoami ==
    \A n \in 1..Len(client.logins) :
        LET l == client.logins[n] IN
        /\ (l.settled /\ l.ok) => l.answer = 200
        /\ l.answer \in {401, 403} => (l.settled /\ ~l.ok)

\* What holds of C36: a login resolves with the ok of the first payload of
\* the user Dispatcher that is not loading; a whoami answered with a status
\* other than 200, 401 and 403, while the token is still the login's, makes it
\* resolve false.
LoginFalseOnOtherFailures ==
    \A n \in 1..Len(client.logins) :
        LET l == client.logins[n] IN
        (/\ l.answer \notin {0, 200, 401, 403}
         /\ client.user.controller = l.run) => (l.settled /\ ~l.ok)

\* A login whose whoami call was answered 401 has resolved true.
LoginTrueAfter401 ==
    \E n \in 1..Len(client.logins) :
        /\ client.logins[n].answer = 401
        /\ client.logins[n].settled
        /\ client.logins[n].ok
        /\ client.authToken = Null
        /\ client.user.payload = Ok(Null)

\* The user data the user Dispatcher exposes (null when it exposes none).
ExposedUser ==
    IF ~client.user.payload.loading /\ client.user.payload.ok
    THEN client.user.payload.data
    ELSE Null

\* C40: whenever the user Dispatcher's payload is ok with user data that is
\* not null, the auth token is not null and is the token that was sent with
\* the whoami call that produced the data: data fetched for a token that has
\* since been replaced or invalidated is never exposed.
C40_AuthConsistency ==
    ExposedUser \notin {Null, Undefined} =>
        /\ client.authToken # Null
        /\ \E i \in WhoamiCalls :
              /\ client.calls[i].run = client.user.controller
              /\ client.calls[i].pc = "done"
              /\ client.calls[i].testedToken = client.authToken

\* C40 witness: user data is exposed for the second token, after the whoami
\* call of the first token was answered too.
C40_Witness ==
    /\ ExposedUser = JsString("alice")
    /\ Len(client.calls) = 2
    /\ WhoamiCalls = {1, 2}
    /\ client.calls[1].pc = "done"
    /\ client.calls[1].testedToken # client.authToken
    /\ client.last.call = 1

(***************************************************************************)
(* CURRENT_TS_MS       src/src/index.ts  (lines 234..243)                  *)
(*                                                                         *)
(* `clock` holds the wall clock (now), the value of the currentTsMs cell,  *)
(* the module constant currentTsMsInterval, the number of interval timers  *)
(* that are running and the number of calls of CURRENT_TS_MS() so far.     *)
(***************************************************************************)
MaxAccess == 3        \* calls of CURRENT_TS_MS()
MaxNow == 7           \* largest reading of the wall clock

\* Module load: Whispr.create(Date.now()); const currentTsMsInterval = null.
NewClock ==
    [now |-> 0, currentTsMs |-> 0, currentTsMsInterval |-> Null, timers |-> 0, accesses |-> 0]

\* CURRENT_TS_MS(): currentTsMsInterval is a constant and nothing is assigned
\* to it; the handle setInterval returns is dropped.
CurrentTsMs(c) ==
    [c EXCEPT !.timers = IF c.currentTsMsInterval = Null THEN @ + 1 ELSE @,
              !.accesses = @ + 1]

\* The callback of an interval: setCurrentTsMs(Date.now())
IntervalCallback(c) == [c EXCEPT !.currentTsMs = c.now]

InitClock ==
    /\ DispatcherIdle
    /\ AsyncInputIdle
    /\ ClientIdle
    /\ ServerIdle
    /\ MetricsIdle
    /\ StorageIdle
    /\ SearcherIdle
    /\ clock = NewClock

\* Some code calls CURRENT_TS_MS().
Access ==
    /\ clock.accesses < MaxAccess
    /\ clock' = CurrentTsMs(clock)
    /\ UNCHANGED outsideClock

\* Time passes.
ClockTick ==
    /\ clock.now < MaxNow
    /\ clock' = [clock EXCEPT !.now = @ + 1]
    /\ UNCHANGED outsideClock

\* One of the running intervals fires.
IntervalFires ==
    /\ clock.timers > 0
    /\ clock' = IntervalCallback(clock)
    /\ UNCHANGED outsideClock

NextClock == Access \/ ClockTick \/ IntervalFires

SpecClock == InitClock /\ [][NextClock]_vars

\* C35: the background timer is started on the first access only: after any
\* number of calls of CURRENT_TS_MS() at most one timer is running.
C35_OneTimer ==
    /\ clock.timers <= 1
    /\ clock.accesses > 0 => clock.timers = 1

\* What holds of C35: no timer runs before the first access, and the first
\* access starts one.
TimerStartsOnFirstAccess ==
    /\ clock.accesses = 0 => clock.timers = 0
    /\ clock.accesses > 0 => clock.timers >= 1
    /\ clock.currentTsMs <= clock.now

-----------------------------------------------------------------------------
(* The Dispatcher with a handler that keeps its progress callback: f may   *)
(* call setProgress after the promise it returned has settled.  The        *)
(* closure is the same (input.tsx 202..207); only the moment differs.      *)

\* f calls setProgress(p) after its promise has settled.
LateProgress(c, p) ==
    /\ Ended(dispatcher.runs[c])
    /\ dispatcher.runs[c].invoked > 0
    /\ dispatcher' = EndBurst(ProgressCall(dispatcher, c, p))
    /\ UNCHANGED <<input, outsideDispatcher>>

NextDispatcherLate ==
    \/ NextDispatcher
    \/ \E c \in Runs(dispatcher) : \E p \in ProgressValues : LateProgress(c, p)

SpecDispatcherLate == InitDispatcher /\ [][NextDispatcherLate]_vars

\* The state cell holds the outcome of a run that was not aborted.
Settled(d) == ~d.payload.loading /\ d.controller \notin d.aborted

\* C37: once a run that was not aborted has published its ok or error
\* payload, the payload stays that outcome until the next dispatch, whatever
\* the handler does, a progress call after its promise settled included.
C37_SettledStaysSettled ==
    [][(Settled(dispatcher) /\ Len(dispatcher'.runs) = Len(dispatcher.runs))
         => dispatcher'.payload = dispatcher.payload]_vars

\* A settled payload went back to loading with no dispatch in between.
SettledThenLoading ==
    /\ Len(dispatcher.runs) > 0
    /\ LastRun.pc \in {"resolved", "rejected"}
    /\ dispatcher.controller \notin dispatcher.aborted
    /\ dispatcher.payload.loading

-----------------------------------------------------------------------------
(* useAsyncInput with an owner that only stores what the hook gives it, a  *)
(* handler whose every call resolves and a clock that does not run         *)
(* backwards (two readings may be equal).  Each pending promise resolves   *)
(* in the end: weak fairness on the resolution.                            *)

\* An edit whose Date.now() is not below a timestamp already handed out.
EditInOrder(config, now) ==
    /\ now >= meta.ts
    /\ now >= value._meta.ts
    /\ UserEdit(config, now)

ResolveSome == \E c \in Runs(result_d) : AsyncResolve(c)

NextAsyncInputLive ==
    \/ \E config \in Configs : \E now \in 0..MaxTs : EditInOrder(config, now)
    \/ ResolveSome

SpecAsyncInputLive ==
    InitAsyncInput /\ [][NextAsyncInputLive]_vars /\ WF_vars(ResolveSome)

\* No handler call is in flight.
Quiet == \A c \in Runs(result_d) : result_d.runs[c].pc # "pending"

\* C38: after the user's last setConfig, with every handler call resolving
\* and the owner storing what the setter gives it, the setter is eventually
\* called with a value whose _meta.config is the last edited config, also
\* when two consecutive edits get the same clock reading.  Once no call is
\* in flight nothing but a further edit can happen, so by then the owner
\* must hold the config edited last.
C38_EventualConsistency ==
    (Quiet /\ edits > 0) => value._meta.config = meta.config

\* Two edits with the same clock reading: the result of the first reached
\* the owner, every call has resolved, and the owner still holds the first
\* edit's config.
StaleAtRest ==
    /\ edits = 2
    /\ Quiet
    /\ value.run # 0
    /\ forwarded = <<meta.ts>>
    /\ value._meta.config # meta.config

\* What holds of C38: at rest the owner holds the edited config unless the
\* edit was stamped with the ts the owner already held.
ConsistentUnlessTsTied ==
    Quiet => (value._meta.config = meta.config \/ value._meta.ts = meta.ts)

\* An edit stamped above the owner's ts has reached the owner.
EditReachedOwner ==
    /\ Quiet
    /\ edits > 0
    /\ value.run # 0
    /\ value._meta = meta

-----------------------------------------------------------------------------
(* useAsyncInput with edits and external changes of any kind and a handler *)
(* whose every call resolves; each pending promise resolves in the end.    *)

NextAsyncInputResolving ==
    \/ \E config \in Configs : \E now \in 0..MaxTs : UserEdit(config, now)
    \/ \E config \in Configs : \E ts \in 0..MaxTs : ExternalChange(config, ts)
    \/ ResolveSome

SpecAsyncInputResolving ==
    InitAsyncInput /\ [][NextAsyncInputResolving]_vars /\ WF_vars(ResolveSome)

\* C39: after any finite sequence of setConfig calls and external value
\* changes, with every handler call resolving, setPending(false) is
\* eventually called after the last setPending(true), also for a setConfig
\* that leaves config and ts deep-equal to the previous meta.  Once no call
\* is in flight nothing but a further edit or change can happen, so by then
\* the owner's flag must be cleared.
C39_PendingCleared == Quiet => ~pending

\* A setConfig that left meta deep-equal: pending was raised, nothing was
\* dispatched, and no call is in flight to clear it.
PendingStuckAfterEqualEdit ==
    /\ Quiet
    /\ pending
    /\ edits = 1
    /\ Len(result_d.runs) = 1
    /\ value.run = 0
    /\ value._meta = meta

====
